---- MODULE Spec2Model ----
(***************************************************************************)
(* KrishiSampann advisory backend: the chat-send endpoint, the agent       *)
(* orchestrator's process_query pipeline (intent analysis, comprehensive   *)
(* gate, advisor fan-out, synthesis, LLM fallback, error payloads).        *)
(*                                                                         *)
(* Strings that the code inspects (queries, keywords) are sequences of     *)
(* one-character strings; a non-ASCII character is written "uXXXX" (its    *)
(* code point).  Texts that the code only passes around and concatenates   *)
(* are sequences of pieces; a piece is a literal of the source tagged with *)
(* the language it is written in.  Confidences are in hundredths.          *)
(***************************************************************************)
EXTENDS Integers, Sequences, FiniteSets, TLC

\* ---------------------------------------------------------------- bounds
\* longest query, in words of the vocabulary below
MaxWords == 2

\* ------------------------------------------------------------ characters
UpperCase == <<"A","B","C","D","E","F","G","H","I","J","K","L","M",
               "N","O","P","Q","R","S","T","U","V","W","X","Y","Z">>

LowerCase == <<"a","b","c","d","e","f","g","h","i","j","k","l","m",
               "n","o","p","q","r","s","t","u","v","w","x","y","z">>

Whitespace == {" ", "\t", "\n"}

\* str.lower() on one character
lower_char(c) ==
  IF \E i \in 1..Len(UpperCase) : UpperCase[i] = c
  THEN LowerCase[CHOOSE i \in 1..Len(UpperCase) : UpperCase[i] = c]
  ELSE c

\* str.lower()
lower(s) == [i \in 1..Len(s) |-> lower_char(s[i])]

\* the Python test `needle in hay` on strings
Contains(hay, needle) ==
  \E i \in 0..(Len(hay) - Len(needle)) :
     SubSeq(hay, i + 1, i + Len(needle)) = needle

\* any(keyword in query_lower for keyword in keywords)
any_keyword_in(keywords, query_lower) ==
  \E k \in 1..Len(keywords) : Contains(query_lower, keywords[k])

RECURSIVE lstrip(_)
lstrip(s) ==
  IF s # <<>> /\ s[1] \in Whitespace THEN lstrip(Tail(s)) ELSE s

RECURSIVE rstrip(_)
rstrip(s) ==
  IF s # <<>> /\ s[Len(s)] \in Whitespace
  THEN rstrip(SubSeq(s, 1, Len(s) - 1)) ELSE s

\* str.strip()
strip(s) == rstrip(lstrip(s))

Range(s) == {s[i] : i \in 1..Len(s)}

\* dict.get(key, default) on a dict modelled as a record
DictGet(d, key, default) == IF key \in DOMAIN d THEN d[key] ELSE default

\* --------------------------------------------------------- keyword tables
intent_keywords ==
  <<[agent |-> "finance", keywords |->
       <<<<"l","o","a","n">>,
        <<"d","e","b","t">>,
        <<"p","a","y","m","e","n","t">>,
        <<"m","o","n","e","y">>,
        <<"c","r","e","d","i","t">>,
        <<"k","a","r","z">>,
        <<"u","d","h","a","r">>,
        <<"q","a","r","z">>>>],
    [agent |-> "agronomy", keywords |->
       <<<<"c","r","o","p">>,
        <<"s","e","e","d">>,
        <<"f","e","r","t","i","l","i","z","e","r">>,
        <<"p","e","s","t">>,
        <<"s","o","i","l">>,
        <<"f","a","s","a","l">>,
        <<"b","e","e","j">>,
        <<"k","h","a","d">>>>],
    [agent |-> "market", keywords |->
       <<<<"p","r","i","c","e">>,
        <<"m","a","n","d","i">>,
        <<"s","e","l","l">>,
        <<"b","u","y">>,
        <<"r","a","t","e">>,
        <<"b","h","a","v">>,
        <<"b","i","k","r","i">>>>],
    [agent |-> "policy", keywords |->
       <<<<"s","u","b","s","i","d","y">>,
        <<"s","c","h","e","m","e">>,
        <<"g","o","v","e","r","n","m","e","n","t">>,
        <<"y","o","j","a","n","a">>,
        <<"s","a","r","k","a","r">>>>],
    [agent |-> "risk", keywords |->
       <<<<"w","e","a","t","h","e","r">>,
        <<"r","a","i","n">>,
        <<"d","r","o","u","g","h","t">>,
        <<"f","l","o","o","d">>,
        <<"m","a","u","s","a","m">>,
        <<"b","a","a","r","i","s","h">>>>]>>

comprehensive_keywords ==
  <<<<"l","o","a","n">>,
    <<"c","r","o","p">>,
    <<"r","e","v","e","n","u","e">>,
    <<"r","e","p","a","y">>,
    <<"a","g","r","o","n","o","m","y">>,
    <<"m","a","r","k","e","t">>,
    <<"p","o","l","i","c","y">>,
    <<"r","i","s","k">>,
    <<"k","a","r","z">>,
    <<"f","a","s","a","l">>,
    <<"k","a","m","a","i">>,
    <<"k","i","s","h","t">>,
    <<"k","h","e","t","i">>,
    <<"m","a","n","d","i">>,
    <<"y","o","j","a","n","a">>,
    <<"k","h","a","t","r","a">>>>

detect_intent_keywords ==
  <<[intent |-> "crop_advice", keywords |->
       <<<<"u092B","u0938","u0932">>,
        <<"u092C","u0940","u091C">>,
        <<"u0916","u093E","u0926">>,
        <<"u0915","u0940","u091F">>,
        <<"c","r","o","p">>,
        <<"s","e","e","d">>,
        <<"f","e","r","t","i","l","i","z","e","r">>>>],
    [intent |-> "loan_help", keywords |->
       <<<<"u090B","u0923">>,
        <<"u0915","u0930","u094D","u091C">>,
        <<"u092A","u0948","u0938","u093E">>,
        <<"l","o","a","n">>,
        <<"m","o","n","e","y">>,
        <<"c","r","e","d","i","t">>>>],
    [intent |-> "market_info", keywords |->
       <<<<"u092E","u0902","u0921","u0940">>,
        <<"u092D","u093E","u0935">>,
        <<"u092C","u093F","u0915","u094D","u0930","u0940">>,
        <<"m","a","r","k","e","t">>,
        <<"p","r","i","c","e">>,
        <<"s","e","l","l">>>>],
    [intent |-> "weather", keywords |->
       <<<<"u092E","u094C","u0938","u092E">>,
        <<"u092C","u093E","u0930","u093F","u0936">>,
        <<"w","e","a","t","h","e","r">>,
        <<"r","a","i","n">>>>],
    [intent |-> "government", keywords |->
       <<<<"u0938","u0930","u0915","u093E","u0930">>,
        <<"u092F","u094B","u091C","u0928","u093E">>,
        <<"u0938","u092C","u094D","u0938","u093F","u0921","u0940">>,
        <<"g","o","v","e","r","n","m","e","n","t">>,
        <<"s","c","h","e","m","e">>>>]>>

\* ------------------------------------------------------ query vocabulary
W_loan == <<"l","o","a","n">>
W_Price == <<"P","r","i","c","e">>
W_CROP == <<"C","R","O","P">>
W_market == <<"m","a","r","k","e","t">>
W_yojana == <<"y","o","j","a","n","a">>
W_train == <<"t","r","a","i","n">>
W_karz_hi == <<"u0915","u0930","u094D","u091C">>

W_blank == <<" ">>

\* the sentence of end-to-end scenario 1, in Devanagari: "mujhe karz aur
\* fasal ki jaankari chahiye"
W_scenario1 ==
  <<"u092E","u0941","u091D","u0947"," ","u0915","u0930","u094D","u091C"," ",
    "u0914","u0930"," ","u092B","u0938","u0932"," ","u0915","u0940"," ",
    "u091C","u093E","u0928","u0915","u093E","u0930","u0940"," ","u091A",
    "u093E","u0939","u093F","u090F">>

\* the words queries are built from: advisor keywords that are and are not
\* comprehensive keywords, a comprehensive keyword that is no advisor's
\* keyword, a word containing a keyword ("train"), mixed case, a Devanagari
\* word (which matches no keyword of the orchestrator), and white space
Words == {W_loan, W_Price, W_CROP, W_market, W_yojana, W_train, W_karz_hi,
          W_blank, W_scenario1}

RECURSIVE JoinWords(_)
JoinWords(ws) ==
  IF ws = <<>> THEN <<>>
  ELSE IF Len(ws) = 1 THEN ws[1]
  ELSE ws[1] \o <<" ">> \o JoinWords(Tail(ws))

WordSeqs == UNION {[1..n -> Words] : n \in 0..MaxWords}

Messages == {JoinWords(ws) : ws \in WordSeqs}

Languages == {"hi", "en", "bn"}

\* ChatRequest.user_id is Optional[str]
NoneId == "<None>"

UserIds == {NoneId, "farmer1"}

Requests == [message : Messages, language : Languages, user_id : UserIds]

\* ------------------------------------------------------------------ texts
\* a literal of the source, tagged with the language it is written in
P(lang, s) == [lang |-> lang, s |-> s]

Sep(s) == [lang |-> "", s |-> s]

\* the language an advisor answers in: Hindi for "hi", English otherwise
AdvisorLang(language) == IF language = "hi" THEN "hi" ELSE "en"

AgentNames == {"finance", "agronomy", "market", "policy", "risk"}

\* what an advisor's handler renders
AdviceText(agent, language) ==
  <<P(AdvisorLang(language), agent \o " advice")>>

\* an advisor's own _get_error_response (its handler raised)
AdvisorApology(agent, language) ==
  <<P(AdvisorLang(language), agent \o " apology")>>

\* ----------------------------------------------------------- orchestrator
\* self.agents, the advisor registry
agents == AgentNames

\* _analyze_intent without the default trio
analyze_intent_no_default(query, language) ==
  LET query_lower == lower(query)
      matched == SelectSeq(intent_keywords,
                   LAMBDA e : any_keyword_in(e.keywords, query_lower))
      found == [i \in 1..Len(matched) |-> matched[i].agent]
  IN [involved_agents |-> found,
      confidence |-> 80,
      primary_intent |-> IF found # <<>> THEN found[1] ELSE "general"]

\* _analyze_intent stopping at the first advisor that matches
analyze_intent_first_match(query, language) ==
  LET query_lower == lower(query)
      matched == SelectSeq(intent_keywords,
                   LAMBDA e : any_keyword_in(e.keywords, query_lower))
      involved_agents ==
        IF matched = <<>> THEN <<"finance", "agronomy", "market">>
        ELSE <<matched[1].agent>>
  IN [involved_agents |-> involved_agents,
      confidence |-> 80,
      primary_intent |-> involved_agents[1]]

analyze_intent(query, language) ==
  LET query_lower == lower(query)
      matched == SelectSeq(intent_keywords,
                   LAMBDA e : any_keyword_in(e.keywords, query_lower))
      found == [i \in 1..Len(matched) |-> matched[i].agent]
      involved_agents ==
        IF found = <<>> THEN <<"finance", "agronomy", "market">> ELSE found
  IN [involved_agents |-> involved_agents,
      confidence |-> 80,
      primary_intent |-> IF involved_agents # <<>> THEN involved_agents[1]
                         ELSE "general"]

is_comprehensive_query(query) ==
  any_keyword_in(comprehensive_keywords, lower(query))

\* _get_user_context: the mock profile; ph is in tenths
get_user_context(user_id) ==
  [user_id |-> user_id,
   location |-> "Punjab",
   current_loans |-> <<[amount |-> 50000, remaining |-> 35000]>>,
   current_crops |-> <<[name |-> "wheat", stage |-> "growing"]>>,
   soil_health |-> [ph |-> 72, nitrogen |-> "medium"],
   language |-> "hi"]

\* responses[agent_name] = text on an insertion-ordered dict
DictPut(responses, agent_name, text) ==
  IF \E i \in 1..Len(responses) : responses[i].agent = agent_name
  THEN [i \in 1..Len(responses) |->
          IF responses[i].agent = agent_name
          THEN [agent |-> agent_name, text |-> text] ELSE responses[i]]
  ELSE Append(responses, [agent |-> agent_name, text |-> text])

Keys(responses) == [i \in 1..Len(responses) |-> responses[i].agent]

\* the text the fan-out substitutes when an advisor's process raises
unavailable_text(agent_name) ==
  <<P("en", "Sorry, " \o agent_name \o " agent is temporarily unavailable.")>>

\* the loop iteration with an except branch that stores nothing
process_one_agent_drop_on_raise(responses, agent_name, language, outcome) ==
  IF agent_name \in AgentNames /\ outcome # "raise"
  THEN DictPut(responses, agent_name,
         IF outcome = "ok" THEN AdviceText(agent_name, language)
         ELSE AdvisorApology(agent_name, language))
  ELSE responses

\* the loop iteration over a registry that lacks the finance advisor
process_one_agent_finance_unregistered(responses, agent_name, language, outcome) ==
  IF agent_name \in agents \ {"finance"}
  THEN DictPut(responses, agent_name,
         CASE outcome = "ok"      -> AdviceText(agent_name, language)
           [] outcome = "apology" -> AdvisorApology(agent_name, language)
           [] outcome = "raise"   -> unavailable_text(agent_name))
  ELSE responses

\* one iteration of the loop of _process_with_agents; outcome is what the
\* advisor's process did: "ok" (advice), "apology" (its handler raised and
\* it returned its own apology) or "raise" (an exception left process)
process_one_agent(responses, agent_name, language, outcome) ==
  IF agent_name \in agents
  THEN DictPut(responses, agent_name,
         CASE outcome = "ok"      -> AdviceText(agent_name, language)
           [] outcome = "apology" -> AdvisorApology(agent_name, language)
           [] outcome = "raise"   -> unavailable_text(agent_name))
  ELSE responses

get_default_response(language) ==
  IF language \in {"hi", "en", "bn", "ta"}
  THEN <<P(language, "greeting")>>
  ELSE <<P("en", "greeting")>>

Preamble == P("hi", "aapke sawaal ke liye meri salaah:")

\* agent_names.get(agent, agent)
heading(agent) ==
  CASE agent = "finance"  -> P("hi", "vittiya salaah")
    [] agent = "agronomy" -> P("hi", "krishi salaah")
    [] agent = "market"   -> P("hi", "bazaar ki jaankari")
    [] agent = "policy"   -> P("hi", "sarkari yojanaen")
    [] agent = "risk"     -> P("hi", "jokhim chetavani")
    [] OTHER              -> P("", agent)

\* the sections built in the reverse of the mapping's order
RECURSIVE sections_reversed(_)
sections_reversed(responses) ==
  IF responses = <<>> THEN <<>>
  ELSE sections_reversed(Tail(responses))
         \o <<heading(responses[1].agent), Sep(":\n")>> \o responses[1].text
         \o <<Sep("\n\n")>>

RECURSIVE sections(_)
sections(responses) ==
  IF responses = <<>> THEN <<>>
  ELSE <<heading(responses[1].agent), Sep(":\n")>> \o responses[1].text
         \o <<Sep("\n\n")>> \o sections(Tail(responses))

\* the synthesis without the single-response branch
synthesize_response_always_headed(responses, language) ==
  IF responses = <<>> THEN get_default_response(language)
  ELSE <<Preamble, Sep("\n\n")>> \o sections(responses)

synthesize_response(responses, language) ==
  IF responses = <<>> THEN get_default_response(language)
  ELSE IF Len(responses) = 1 THEN responses[1].text
  ELSE <<Preamble, Sep("\n\n")>> \o sections(responses)

generate_suggestions(agents_used, language) ==
  LET order == <<"finance", "agronomy", "market", "policy", "risk">>
      used == SelectSeq(order, LAMBDA a : a \in Range(agents_used))
  IN [i \in 1..Len(used) |->
        P(AdvisorLang(language), used[i] \o " suggestion")]

get_error_response(language) ==
  LET l == IF language = "hi" THEN "hi" ELSE "en"
  IN [text |-> <<P(l, "technical issue, try again later")>>,
      voice_ready |-> << <<P(l, "technical issue")>>,
                         <<P(l, "try again later")>> >>,
      language |-> language,
      intent |-> "error",
      confidence |-> 0,
      suggestions |-> <<>>]

\* lines 75-86: the structured response of the comprehensive path
comprehensive_response(synthesized, intent_an, ctx, responses, language) ==
  [text |-> synthesized,
   intent |-> intent_an.primary_intent,
   confidence |-> intent_an.confidence,
   agents_used |-> intent_an.involved_agents,
   voice_ready |-> <<synthesized>>,
   suggestions |-> generate_suggestions(intent_an.involved_agents, language),
   metadata |-> [user_context |-> ctx, agent_responses |-> responses]]

\* ------------------------------------------------- LLM fallback service
RECURSIVE detect_intent_from(_, _)
detect_intent_from(table, query_lower) ==
  IF table = <<>> THEN "general_inquiry"
  ELSE IF any_keyword_in(table[1].keywords, query_lower)
       THEN table[1].intent
       ELSE detect_intent_from(Tail(table), query_lower)

detect_intent(query, language) ==
  detect_intent_from(detect_intent_keywords, lower(query))

llm_suggestions(query, language) ==
  LET l == AdvisorLang(language)
  IN <<P(l, "learn about crops"), P(l, "market price information"),
       P(l, "ask about schemes"), P(l, "weather information")>>

get_fallback_response(language) ==
  LET l == AdvisorLang(language)
  IN [text |-> <<P(l, "unable to help right now, try again later")>>,
      voice_ready |-> << <<P(l, "unable to help right now")>>,
                         <<P(l, "try again later")>> >>,
      language |-> language,
      intent |-> "error",
      confidence |-> 0,
      suggestions |-> <<>>]

\* the sentences of the replies the completion API gives in this model;
\* each is shorter than 100 characters
LLMReplies == { <<P("hi", "namaste kisan bhai")>>,
                <<P("en", "Use less urea"), Sep(". "),
                  P("en", "Sell after harvest")>> }

\* text.split('. ') for sentences of at most 100 characters
RECURSIVE split_sentences(_, _)
split_sentences(text, cur) ==
  IF text = <<>> THEN <<cur>>
  ELSE IF text[1] = Sep(". ")
       THEN <<cur>> \o split_sentences(Tail(text), <<>>)
       ELSE split_sentences(Tail(text), Append(cur, text[1]))

process_for_voice(text, language) ==
  [voice_ready |-> split_sentences(text, <<>>)]

\* the payload of a successful get_krishi_mitra_response (lines 58-65)
krishi_mitra_payload(query, language, ai_response) ==
  [text |-> ai_response,
   voice_ready |-> process_for_voice(ai_response, language).voice_ready,
   language |-> language,
   intent |-> detect_intent(query, language),
   confidence |-> 95,
   suggestions |-> llm_suggestions(query, language)]

\* ------------------------------------------------- chat-send endpoint
FallbackText == <<P("hi", "technical issue, try again later")>>

\* the ChatResponse of the except branch of send_message (lines 84-101)
endpoint_fallback(req) ==
  [status |-> 200,
   text |-> FallbackText,
   language |-> req.language,
   confidence |-> 0,
   voice_ready |-> <<FallbackText>>,
   intent |-> "error",
   suggestions |-> <<P("hi", "try again"), P("hi", "ask another question")>>]

\* the ChatResponse built from process_query's result (lines 58-82)
chat_response(result, req) ==
  IF "text" \in DOMAIN result
  THEN [status |-> 200,
        text |-> result.text,
        language |-> req.language,
        confidence |-> 95,
        voice_ready |-> DictGet(result, "voice_ready", <<result.text>>),
        intent |-> DictGet(result, "intent", "general"),
        suggestions |-> DictGet(result, "suggestions", <<>>)]
  ELSE [status |-> 200,
        text |-> <<P("hi", "technical issue")>>,
        language |-> req.language,
        confidence |-> 95,
        voice_ready |-> << <<P("hi", "technical issue")>> >>,
        intent |-> "general",
        suggestions |-> <<>>]

\* --------------------------------------------------------------- advisors
\* the longest current_loans list of a user context
MaxLoans == 2

\* _analyze_finance_query: the keyword lists, in the order they are tested
finance_query_keywords ==
  <<[query_type |-> "debt_forecast", keywords |->
       <<<<"d","e","b","t">>, <<"k","a","r","z">>, <<"u","d","h","a","r">>,
         <<"q","a","r","z">>, <<"f","r","e","e">>, <<"m","u","k","t">>>>],
    [query_type |-> "loan_recommendation", keywords |->
       <<<<"l","o","a","n">>, <<"c","r","e","d","i","t">>, <<"k","a","r","z">>,
         <<"u","d","h","a","r">>>>],
    [query_type |-> "subsidy_info", keywords |->
       <<<<"s","u","b","s","i","d","y">>, <<"y","o","j","a","n","a">>,
         <<"s","c","h","e","m","e">>, <<"h","e","l","p">>>>],
    [query_type |-> "repayment_strategy", keywords |->
       <<<<"r","e","p","a","y">>, <<"p","a","y","m","e","n","t">>,
         <<"i","n","s","t","a","l","l","m","e","n","t">>,
         <<"k","i","s","h","t">>>>]>>

\* _analyze_agronomy_query: the keyword lists, in the order they are tested
agronomy_query_keywords ==
  <<[query_type |-> "crop_recommendation", keywords |->
       <<<<"c","r","o","p">>, <<"f","a","s","a","l">>, <<"b","e","e","j">>,
         <<"p","l","a","n","t">>, <<"g","r","o","w">>>>],
    [query_type |-> "soil_health", keywords |->
       <<<<"s","o","i","l">>, <<"m","i","t","t","i">>, <<"p","h">>,
         <<"f","e","r","t","i","l","i","z","e","r">>, <<"k","h","a","d">>>>],
    [query_type |-> "pest_management", keywords |->
       <<<<"p","e","s","t">>, <<"d","i","s","e","a","s","e">>,
         <<"k","e","e","t">>, <<"r","o","g","i">>>>],
    [query_type |-> "farming_practices", keywords |->
       <<<<"p","r","a","c","t","i","c","e">>,
         <<"t","e","c","h","n","i","q","u","e">>, <<"m","e","t","h","o","d">>,
         <<"t","a","r","i","k","a">>>>]>>

\* _analyze_market_query: the keyword lists, in the order they are tested
market_query_keywords ==
  <<[query_type |-> "price_inquiry", keywords |->
       <<<<"p","r","i","c","e">>, <<"r","a","t","e">>, <<"b","h","a","v">>,
         <<"d","u","m">>, <<"c","o","s","t">>>>],
    [query_type |-> "selling_strategy", keywords |->
       <<<<"s","e","l","l">>, <<"b","i","k","r","i">>, <<"m","a","n","d","i">>,
         <<"m","a","r","k","e","t">>>>],
    [query_type |-> "mandi_info", keywords |->
       <<<<"m","a","n","d","i">>, <<"m","a","r","k","e","t">>,
         <<"h","a","a","t">>>>],
    [query_type |-> "demand_forecast", keywords |->
       <<<<"d","e","m","a","n","d">>, <<"t","r","e","n","d">>,
         <<"f","u","t","u","r","e">>, <<"f","o","r","e","c","a","s","t">>>>]>>

\* _analyze_policy_query: the keyword lists, in the order they are tested
policy_query_keywords ==
  <<[query_type |-> "scheme_info", keywords |->
       <<<<"s","c","h","e","m","e">>, <<"y","o","j","a","n","a">>,
         <<"p","r","o","g","r","a","m">>>>],
    [query_type |-> "eligibility_check", keywords |->
       <<<<"e","l","i","g","i","b","l","e">>, <<"q","u","a","l","i","f","y">>,
         <<"c","h","e","c","k">>>>],
    [query_type |-> "application_help", keywords |->
       <<<<"a","p","p","l","y">>,
         <<"a","p","p","l","i","c","a","t","i","o","n">>, <<"f","o","r","m">>>>],
    [query_type |-> "subsidy_info", keywords |->
       <<<<"s","u","b","s","i","d","y">>, <<"h","e","l","p">>,
         <<"s","u","p","p","o","r","t">>>>]>>

\* _analyze_risk_query: the keyword lists, in the order they are tested
risk_query_keywords ==
  <<[query_type |-> "weather_alert", keywords |->
       <<<<"w","e","a","t","h","e","r">>, <<"r","a","i","n">>,
         <<"d","r","o","u","g","h","t">>, <<"f","l","o","o","d">>,
         <<"m","a","u","s","a","m">>>>],
    [query_type |-> "pest_alert", keywords |->
       <<<<"p","e","s","t">>, <<"d","i","s","e","a","s","e">>,
         <<"k","e","e","t">>, <<"r","o","g","i">>>>],
    [query_type |-> "risk_assessment", keywords |->
       <<<<"r","i","s","k">>, <<"d","a","n","g","e","r">>,
         <<"t","h","r","e","a","t">>, <<"k","h","a","t","r","a">>>>],
    [query_type |-> "mitigation_strategy", keywords |->
       <<<<"p","r","e","v","e","n","t">>, <<"p","r","o","t","e","c","t">>,
         <<"s","a","v","e">>, <<"b","a","c","h","a","o">>>>]>>

query_keywords(agent) ==
  CASE agent = "finance" -> finance_query_keywords
    [] agent = "agronomy" -> agronomy_query_keywords
    [] agent = "market" -> market_query_keywords
    [] agent = "policy" -> policy_query_keywords
    [] agent = "risk" -> risk_query_keywords

\* _analyze_<advisor>_query: the first list with a keyword in the lowered
\* query names the handler, "general" when none has
analyze_advisor_query(agent, query) ==
  LET query_lower == lower(query)
      table == query_keywords(agent)
      hits == {i \in 1..Len(table) :
                 any_keyword_in(table[i].keywords, query_lower)}
  IN IF hits = {} THEN "general"
     ELSE table[CHOOSE i \in hits : \A j \in hits : i <= j].query_type

\* AgronomyAgent._load_agronomy_data: the fields of self.crops that the
\* crop recommendation reads;
\* profit_margin is in hundredths
crops ==
  [wheat |-> [season |-> "rabi", soil_type |-> "loamy",
              yield_per_acre |-> 20, market_price |-> 2100, profit_margin |-> 40],
   rice |-> [season |-> "kharif", soil_type |-> "clay",
             yield_per_acre |-> 25, market_price |-> 1800, profit_margin |-> 35],
   maize |-> [season |-> "kharif", soil_type |-> "loamy",
              yield_per_acre |-> 30, market_price |-> 1600, profit_margin |-> 50],
   cotton |-> [season |-> "kharif", soil_type |-> "sandy_loam",
               yield_per_acre |-> 8, market_price |-> 6500, profit_margin |-> 45],
   sugarcane |-> [season |-> "year_round", soil_type |-> "clay_loam",
                  yield_per_acre |-> 350, market_price |-> 315, profit_margin |-> 30],
   potato |-> [season |-> "rabi", soil_type |-> "sandy_loam",
               yield_per_acre |-> 120, market_price |-> 800, profit_margin |-> 55]]

\* MarketAgent._load_market_data: self.current_prices, rupees per quintal
\* in each mandi
current_prices ==
  [wheat |-> [bathinda |-> 2150, ludhiana |-> 2180, amritsar |-> 2160,
              jalandhar |-> 2170, patiala |-> 2140, trend |-> "stable",
              last_updated |-> "2024-08-18"],
   rice |-> [bathinda |-> 1850, ludhiana |-> 1880, amritsar |-> 1860,
             jalandhar |-> 1870, patiala |-> 1840, trend |-> "increasing",
             last_updated |-> "2024-08-18"],
   maize |-> [bathinda |-> 1650, ludhiana |-> 1680, amritsar |-> 1660,
              jalandhar |-> 1670, patiala |-> 1640, trend |-> "stable",
              last_updated |-> "2024-08-18"],
   cotton |-> [bathinda |-> 6700, ludhiana |-> 6750, amritsar |-> 6720,
               jalandhar |-> 6730, patiala |-> 6680, trend |-> "decreasing",
               last_updated |-> "2024-08-18"],
   sugarcane |-> [bathinda |-> 320, ludhiana |-> 325, amritsar |-> 322,
                  jalandhar |-> 323, patiala |-> 318, trend |-> "stable",
                  last_updated |-> "2024-08-18"],
   potato |-> [bathinda |-> 850, ludhiana |-> 880, amritsar |-> 860,
               jalandhar |-> 870, patiala |-> 840, trend |-> "increasing",
               last_updated |-> "2024-08-18"]]

\* MarketAgent._load_market_data: self.mandi_info, keyed by the mandi's town;
\* the fields the handlers read
mandi_info ==
  [bathinda |-> [name |-> "Bathinda Grain Market",
                 location |-> "Bathinda, Punjab",
                 transport_links |-> "Rail and Road", processing_units |-> 15],
   ludhiana |-> [name |-> "Ludhiana Grain Market",
                 location |-> "Ludhiana, Punjab",
                 transport_links |-> "Rail, Road, Air", processing_units |-> 25],
   amritsar |-> [name |-> "Amritsar Grain Market",
                 location |-> "Amritsar, Punjab",
                 transport_links |-> "Rail and Road", processing_units |-> 12],
   jalandhar |-> [name |-> "Jalandhar Grain Market",
                  location |-> "Jalandhar, Punjab",
                  transport_links |-> "Rail and Road", processing_units |-> 10],
   patiala |-> [name |-> "Patiala Grain Market",
                location |-> "Patiala, Punjab",
                transport_links |-> "Rail and Road", processing_units |-> 8]]

\* the keys of every entry of PolicyAgent.government_schemes
scheme_fields ==
  {"name", "amount", "frequency", "eligibility", "documents_required",
   "application", "deadline", "disbursement", "contact", "website"}

\* PolicyAgent._load_policy_data: self.government_schemes; each entry has
\* the keys of scheme_fields, of which the name is kept here
government_schemes ==
  [pm_kisan |-> [f \in scheme_fields |->
       IF f = "name" THEN "PM-KISAN (Pradhan Mantri Kisan Samman Nidhi)" ELSE "set"],
   pm_fasal_bima_yojana |-> [f \in scheme_fields |->
       IF f = "name" THEN "PM Fasal Bima Yojana (Crop Insurance)" ELSE "set"],
   kisan_credit_card |-> [f \in scheme_fields |->
       IF f = "name" THEN "Kisan Credit Card (KCC)" ELSE "set"],
   pm_ksy |-> [f \in scheme_fields |->
       IF f = "name" THEN "PM Kisan Sampada Yojana (Food Processing)" ELSE "set"],
   pm_ksn |-> [f \in scheme_fields |->
       IF f = "name" THEN "PM Kisan Suryodaya Yojana (Solar Pumps)" ELSE "set"],
   pm_ksy_horticulture |-> [f \in scheme_fields |->
       IF f = "name" THEN "PM Kisan Sampada Yojana - Horticulture" ELSE "set"]]

\* what _load_<advisor>_data assigns to self; a table that no modelled
\* handler looks into is "loaded"
loaded_data(agent) ==
  CASE agent = "finance" ->
         [loan_schemes |-> "loaded", subsidy_schemes |-> "loaded",
          banks |-> "loaded"]
    [] agent = "agronomy" ->
         [crops |-> crops, agronomy_techniques |-> "loaded",
          punjab_data |-> "loaded"]
    [] agent = "market" ->
         [current_prices |-> current_prices, demand_forecast |-> "loaded",
          mandi_info |-> mandi_info, market_trends |-> "loaded",
          selling_strategies |-> "loaded"]
    [] agent = "policy" ->
         [government_schemes |-> government_schemes,
          punjab_subsidies |-> "loaded",
          loan_policies |-> "loaded", application_centers |-> "loaded"]
    [] agent = "risk" ->
         [weather_data |-> "loaded", pest_data |-> "loaded",
          market_risks |-> "loaded", climate_risks |-> "loaded",
          risk_matrix |-> "loaded", mitigation_strategies |-> "loaded"]

\* the advisor object: __init__ sets initialized to False and defines no
\* table; initialize() loads the tables and sets initialized to True
advisor_object(agent, initialized) ==
  IF initialized
  THEN [initialized |-> TRUE, data |-> loaded_data(agent)]
  ELSE [initialized |-> FALSE, data |-> <<>>]

\* what a handler hands back to process: a text, or an exception
Rendered(text) ==
  [raised |-> FALSE, text |-> text, divisors |-> <<>>, ranked |-> <<>>]

Raises(exception) ==
  [raised |-> TRUE, exception |-> exception, text |-> <<>>,
   divisors |-> <<>>, ranked |-> <<>>]

\* sum(loan.get("remaining", 0) for loan in loans)
RECURSIVE sum_remaining(_)
sum_remaining(loans) ==
  IF loans = <<>> THEN 0
  ELSE DictGet(Head(loans), "remaining", 0) + sum_remaining(Tail(loans))

\* Python's int(x / 10): truncation towards zero
int_of_tenths(x) == IF x >= 0 THEN x \div 10 ELSE -((-x) \div 10)

\* FinanceAgent._calculate_debt_forecast.  monthly_payment is kept in tenths
\* of a rupee: min(monthly_income * 0.4, current_debt * 0.1) * 10.  divisors
\* lists the divisor of every division the computation evaluates.
calculate_debt_forecast(user_context) ==
  LET current_debt ==
        sum_remaining(DictGet(user_context, "current_loans", <<>>))
      monthly_income == 15000
      monthly_payment_x10 ==
        IF monthly_income * 4 <= current_debt THEN monthly_income * 4
        ELSE current_debt
  IN [monthly_payment |-> int_of_tenths(monthly_payment_x10),
      days_to_freedom |->
        IF monthly_payment_x10 > 0
        THEN (current_debt * 300) \div monthly_payment_x10
        ELSE 0,
      divisors |->
        IF monthly_payment_x10 > 0 THEN <<monthly_payment_x10>> ELSE <<>>]

\* ---------------------------------------------------------- Python floats
\* monthly_income * 0.4, current_debt * 0.1 and current_debt / monthly_payment
\* are IEEE-754 binary64 operations: each result is the exact value rounded to
\* 53 significant bits, ties to even.  Naturals are little-endian sequences of
\* bits with no high zero (<<>> is 0), so that 106-bit products can be held.
RECURSIVE bits_of(_)
bits_of(n) == IF n = 0 THEN <<>> ELSE <<n % 2>> \o bits_of(n \div 2)

RECURSIVE nat_of(_)
nat_of(a) == IF a = <<>> THEN 0 ELSE a[1] + 2 * nat_of(Tail(a))

\* a without its high zeros
bits_strip(a) ==
  LET ones == {i \in 1..Len(a) : a[i] = 1}
  IN IF ones = {} THEN <<>> ELSE SubSeq(a, 1, CHOOSE i \in ones : \A j \in ones : j <= i)

zeros(n) == [i \in 1..n |-> 0]

bit(a, i) == IF i \in 1..Len(a) THEN a[i] ELSE 0

\* The operators on ranges of bit positions halve the range, and finish the half
\* that the other half depends on first, which keeps the nesting shallow.

\* bits lo..hi of a + b with the carry into position lo: the sum's bits and the carry out
RECURSIVE add_range(_, _, _, _, _)
add_range(a, b, lo, hi, carry) ==
  IF lo = hi THEN [s |-> <<(bit(a, lo) + bit(b, lo) + carry) % 2>>, c |-> (bit(a, lo) + bit(b, lo) + carry) \div 2]
  ELSE LET low == add_range(a, b, lo, (lo + hi) \div 2, carry)
           high == add_range(a, b, (lo + hi) \div 2 + 1, hi, low.c)
       IN [s |-> low.s \o high.s, c |-> high.c]

wider(a, b) == IF Len(a) < Len(b) THEN Len(b) ELSE Len(a)

bits_add(a, b) ==
  IF a = <<>> THEN b ELSE IF b = <<>> THEN a
  ELSE LET sum == add_range(a, b, 1, wider(a, b), 0)
       IN IF sum.c = 1 THEN sum.s \o <<1>> ELSE sum.s

\* bits lo..hi of a - b with the borrow from position lo: the difference's bits and the borrow out
RECURSIVE sub_range(_, _, _, _, _)
sub_range(a, b, lo, hi, borrow) ==
  IF lo = hi THEN [s |-> <<(bit(a, lo) - bit(b, lo) - borrow + 2) % 2>>, c |-> IF bit(a, lo) - bit(b, lo) - borrow < 0 THEN 1 ELSE 0]
  ELSE LET low == sub_range(a, b, lo, (lo + hi) \div 2, borrow)
           high == sub_range(a, b, (lo + hi) \div 2 + 1, hi, low.c)
       IN [s |-> low.s \o high.s, c |-> high.c]

\* a - b for a >= b
bits_sub(a, b) == IF a = <<>> THEN <<>> ELSE bits_strip(sub_range(a, b, 1, Len(a), 0).s)

\* a < b on positions lo..hi, decided by the highest position where they differ
RECURSIVE less_range(_, _, _, _)
less_range(a, b, lo, hi) ==
  IF lo = hi THEN a[lo] < b[lo]
  ELSE IF SubSeq(a, (lo + hi) \div 2 + 1, hi) # SubSeq(b, (lo + hi) \div 2 + 1, hi) THEN less_range(a, b, (lo + hi) \div 2 + 1, hi)
  ELSE less_range(a, b, lo, (lo + hi) \div 2)

bits_less(a, b) == IF Len(a) # Len(b) THEN Len(a) < Len(b) ELSE a # <<>> /\ less_range(a, b, 1, Len(a))

\* a times bits lo..hi of b
RECURSIVE mul_range(_, _, _, _)
mul_range(a, b, lo, hi) ==
  IF lo = hi THEN (IF b[lo] = 1 THEN zeros(lo - 1) \o a ELSE <<>>)
  ELSE bits_add(mul_range(a, b, lo, (lo + hi) \div 2), mul_range(a, b, (lo + hi) \div 2 + 1, hi))

bits_mul(a, b) == IF a = <<>> \/ b = <<>> THEN <<>> ELSE mul_range(a, b, 1, Len(b))

\* one step of long division: the next lower_half bit b of the dividend joins the remainder r
div_step(r, b, d) ==
  LET r2 == bits_strip(<<b>> \o r)
  IN IF bits_less(r2, d) THEN [q |-> <<0>>, r |-> r2] ELSE [q |-> <<1>>, r |-> bits_sub(r2, d)]

\* the steps for bits hi down to lo of n, entered with remainder r: the quotient's
\* bits from the top, and the remainder left. The range is halved, and the upper_half
\* half is finished before the lower_half one starts, which keeps the nesting shallow.
RECURSIVE div_steps(_, _, _, _, _)
div_steps(n, d, lo, hi, r) ==
  IF lo = hi THEN div_step(r, n[lo], d)
  ELSE LET upper_half == div_steps(n, d, (lo + hi) \div 2 + 1, hi, r)
           lower_half == div_steps(n, d, lo, (lo + hi) \div 2, upper_half.r)
       IN [q |-> upper_half.q \o lower_half.q, r |-> lower_half.r]

\* quotient and remainder of n by d > 0
bits_divmod(n, d) ==
  LET st == IF n = <<>> THEN [q |-> <<>>, r |-> <<>>] ELSE div_steps(n, d, 1, Len(n), <<>>)
  IN [q |-> bits_strip([i \in 1..Len(st.q) |-> st.q[Len(st.q) + 1 - i]]), r |-> st.r]

\* the significand of the literals 0.1 (times 2^-56) and 0.4 (times 2^-54): 0x1999999999999A
significand_1_10 == <<0, 1, 0, 1, 1, 0, 0, 1, 1, 0, 0, 1, 1, 0, 0, 1, 1, 0, 0, 1, 1, 0, 0, 1, 1, 0, 0, 1, 1, 0, 0, 1, 1, 0, 0, 1, 1, 0, 0, 1, 1, 0, 0, 1, 1, 0, 0, 1, 1, 0, 0, 1, 1>>

significand_bits == Len(significand_1_10)

\* A float that is positive or zero: m * 2^e with m of exactly significand_bits
\* bits, or m = <<>> for 0.0. The forecast's amounts are far from the ends of
\* the exponent range, so e is not limited.
float_zero == [m |-> <<>>, e |-> 0]

\* the float nearest to (n + f) * 2^e, ties to even, where 0 <= f < 1 and f > 0 iff inexact
round_to_float(n, e, inexact) ==
  LET s == Len(n) - significand_bits
  IN IF n = <<>> THEN float_zero
     ELSE IF s <= 0 THEN [m |-> zeros(-s) \o n, e |-> e + s]
     ELSE LET kept == SubSeq(n, s + 1, Len(n))
              below == inexact \/ \E i \in 1..(s - 1) : n[i] = 1
              up == n[s] = 1 /\ (below \/ kept[1] = 1)
              r == IF up THEN bits_add(kept, <<1>>) ELSE kept
          IN IF Len(r) > significand_bits THEN [m |-> Tail(r), e |-> e + s + 1] ELSE [m |-> r, e |-> e + s]

float_of_int(n) == round_to_float(bits_of(n), 0, FALSE)

float_0_1 == [m |-> significand_1_10, e |-> -56]

float_0_4 == [m |-> significand_1_10, e |-> -54]

\* x * y
float_mul(x, y) == round_to_float(bits_mul(y.m, x.m), x.e + y.e, FALSE)

\* x / y for y > 0: the quotient is taken to two bits more than a significand
float_div(x, y) ==
  LET d == bits_divmod(IF x.m = <<>> THEN <<>> ELSE zeros(significand_bits + 2) \o x.m, y.m)
  IN round_to_float(d.q, x.e - y.e - (significand_bits + 2), d.r # <<>>)

\* x < y
float_less(x, y) ==
  IF y.m = <<>> THEN FALSE
  ELSE IF x.m = <<>> THEN TRUE
  ELSE IF x.e # y.e THEN x.e < y.e
  ELSE bits_less(x.m, y.m)

\* min(x, y) of Python: x unless y < x
float_min(x, y) == IF float_less(y, x) THEN y ELSE x

\* int(x)
float_int(x) ==
  IF x.m = <<>> \/ -x.e >= significand_bits THEN 0
  ELSE IF x.e >= 0 THEN nat_of(zeros(x.e) \o x.m)
  ELSE nat_of(SubSeq(x.m, 1 - x.e, significand_bits))

\* FinanceAgent._calculate_debt_forecast, lines 226-231, in floats:
\* monthly_payment = min(monthly_income * 0.4, current_debt * 0.1)
forecast_monthly_payment_no_cap(current_debt) ==
  float_mul(float_of_int(current_debt), float_0_1)

forecast_monthly_payment(current_debt) ==
  float_min(float_mul(float_of_int(15000), float_0_4), float_mul(float_of_int(current_debt), float_0_1))

\* months_to_freedom = current_debt / monthly_payment if monthly_payment > 0 else 0
forecast_months_to_freedom(current_debt) ==
  LET monthly_payment == forecast_monthly_payment(current_debt)
  IN IF float_less(float_zero, monthly_payment) THEN float_div(float_of_int(current_debt), monthly_payment)
     ELSE float_zero

\* FinanceAgent._get_no_debt_response
get_no_debt_response(language) ==
  <<P(AdvisorLang(language), "finance no debt")>>

handle_debt_forecast_no_zero_check(user_context, language) ==
  [Rendered(<<P(AdvisorLang(language), "finance debt forecast")>>)
     EXCEPT !.divisors = calculate_debt_forecast(user_context).divisors]

\* FinanceAgent._handle_debt_forecast
handle_debt_forecast(user_context, language) ==
  LET current_debt ==
        sum_remaining(DictGet(user_context, "current_loans", <<>>))
  IN IF current_debt = 0
     THEN Rendered(get_no_debt_response(language))
     ELSE [Rendered(<<P(AdvisorLang(language), "finance debt forecast")>>)
             EXCEPT !.divisors = calculate_debt_forecast(user_context).divisors]

\* AgronomyAgent._get_current_season, from the month of datetime.now()
get_current_season(current_month) ==
  IF current_month \in {6, 7, 8, 9} THEN "kharif"
  ELSE IF current_month \in {10, 11, 12, 1} THEN "rabi"
  ELSE "zaid"

risk_get_current_season_january_zaid(current_month) ==
  IF current_month \in {6, 7, 8, 9} THEN "kharif"
  ELSE IF current_month \in {10, 11, 12} THEN "rabi"
  ELSE "zaid"

\* RiskAgent._get_current_season, from the month of datetime.now()
risk_get_current_season(current_month) ==
  IF current_month \in {6, 7, 8, 9} THEN "kharif"
  ELSE IF current_month \in {10, 11, 12, 1} THEN "rabi"
  ELSE "zaid"

\* self._get_current_season() of the advisors that have one
advisor_current_season(agent, current_month) ==
  IF agent = "agronomy" THEN get_current_season(current_month)
  ELSE IF agent = "risk" THEN risk_get_current_season(current_month)
  ELSE ""

\* yield_per_acre * market_price * profit_margin, in hundredths of a rupee
profit_per_acre(crop_data) ==
  DictGet(crop_data, "yield_per_acre", 0)
    * DictGet(crop_data, "market_price", 0)
    * DictGet(crop_data, "profit_margin", 0)

\* list.sort(key=profit_per_acre, reverse=True): descending and stable
RECURSIVE sort_by_profit(_, _)
sort_by_profit(names, table) ==
  IF names = <<>> THEN <<>>
  ELSE LET rest == sort_by_profit(Tail(names), table)
           p == profit_per_acre(table[Head(names)])
           before == SelectSeq(rest, LAMBDA c : profit_per_acre(table[c]) > p)
           after == SelectSeq(rest, LAMBDA c : profit_per_acre(table[c]) <= p)
       IN before \o <<Head(names)>> \o after

\* AgronomyAgent._get_suitable_crops: self.seasons is read first, and
\* _load_agronomy_data assigns no attribute of that name
get_suitable_crops(data, soil_health, season) ==
  IF "seasons" \notin DOMAIN data THEN Raises("AttributeError")
  ELSE
    LET soil_type == DictGet(soil_health, "type", "loamy")
        season_crops ==
          DictGet(DictGet(data.seasons, season, <<>>), "crops", <<>>)
        suitable_crops ==
          SelectSeq(season_crops,
                    LAMBDA c : /\ c \in DOMAIN data.crops
                               /\ data.crops[c].soil_type = soil_type)
    IN [Rendered(<<>>) EXCEPT !.ranked =
          IF suitable_crops # <<>> THEN suitable_crops ELSE season_crops]

\* AgronomyAgent._handle_crop_recommendation; ranked is the names of the
\* crops it renders, profitable_crops[:3]
handle_crop_recommendation(data, user_context, language, current_month) ==
  LET soil_health == DictGet(user_context, "soil_health", <<>>)
      current_season == get_current_season(current_month)
      suitable == get_suitable_crops(data, soil_health, current_season)
  IN IF suitable.raised THEN suitable
     ELSE
       LET known == SelectSeq(suitable.ranked,
                              LAMBDA c : c \in DOMAIN data.crops)
           profitable_crops == sort_by_profit(known, data.crops)
       IN IF profitable_crops = <<>> THEN Raises("IndexError")
          ELSE [Rendered(<<P(AdvisorLang(language),
                             "agronomy crop recommendations")>>)
                  EXCEPT !.ranked =
                    SubSeq(profitable_crops, 1,
                           IF Len(profitable_crops) < 3
                           THEN Len(profitable_crops) ELSE 3)]

\* FinanceAgent._handle_repayment_strategy
handle_repayment_strategy(user_context, language) ==
  IF DictGet(user_context, "current_loans", <<>>) = <<>>
  THEN Rendered(get_no_debt_response(language))
  ELSE Rendered(AdviceText("finance", language))

\* a handler whose first step reads self.<attribute> and that renders its
\* advice from what it finds there
handle_reading(agent, data, attribute, language) ==
  IF attribute \notin DOMAIN data THEN Raises("AttributeError")
  ELSE Rendered(AdviceText(agent, language))

\* MarketAgent._get_no_crops_response
get_no_crops_response(language) ==
  <<P(AdvisorLang(language), "market no crops")>>

\* MarketAgent._handle_price_inquiry and _handle_demand_forecast: the table
\* is read inside the loop over current_crops
handle_crops_reading(data, attribute, user_context, language) ==
  LET current_crops == DictGet(user_context, "current_crops", <<>>)
  IN IF current_crops = <<>> THEN Rendered(get_no_crops_response(language))
     ELSE handle_reading("market", data, attribute, language)

\* dict.get(key, default) on a dict whose keys are strings; key is
\* [kind, v], the Python type of the key and its value
str_keyed_get(d, key, default) ==
  IF key.kind = "str" /\ key.v \in DOMAIN d THEN d[key.v] ELSE default

\* MarketAgent._handle_selling_strategy: for the first crop of
\* current_crops that has prices, mandi_info is looked up under the crop's
\* price in Ludhiana (a number) and mandi_data["name"] is read
handle_selling_strategy(data, user_context, language) ==
  LET current_crops == DictGet(user_context, "current_crops", <<>>)
  IN IF current_crops = <<>> THEN Rendered(get_no_crops_response(language))
     ELSE IF "current_prices" \notin DOMAIN data THEN Raises("AttributeError")
     ELSE
       LET priced == SelectSeq(current_crops,
                       LAMBDA crop : DictGet(crop, "name", "")
                                       \in DOMAIN data.current_prices)
       IN IF priced = <<>> THEN Rendered(AdviceText("market", language))
          ELSE IF "mandi_info" \notin DOMAIN data THEN Raises("AttributeError")
          ELSE
            LET price_data == data.current_prices[priced[1].name]
                mandi_data ==
                  str_keyed_get(data.mandi_info,
                                [kind |-> "int", v |-> price_data.ludhiana],
                                <<>>)
            IN IF "name" \notin DOMAIN mandi_data THEN Raises("KeyError")
               ELSE Rendered(AdviceText("market", language))

\* PolicyAgent._handle_scheme_info: scheme_data["status"] of every entry of
\* self.government_schemes, then self.state_schemes
handle_scheme_info(data, user_context, language) ==
  IF "government_schemes" \notin DOMAIN data THEN Raises("AttributeError")
  ELSE IF \E scheme_id \in DOMAIN data.government_schemes :
            "status" \notin DOMAIN data.government_schemes[scheme_id]
  THEN Raises("KeyError")
  ELSE handle_reading("policy", data, "state_schemes", language)

\* RiskAgent._handle_risk_assessment: self.weather_alerts, self.pest_alerts
\* and self.seasonal_risks, in this order
handle_risk_assessment(data, language) ==
  IF {"weather_alerts", "pest_alerts", "seasonal_risks"} \subseteq DOMAIN data
  THEN Rendered(AdviceText("risk", language))
  ELSE Raises("AttributeError")

\* the handler that process selects for the query type.  A handler that
\* reads no table of self renders its advice; any handler may be cut short
\* by an exception (fault)
run_handler(agent, self, query_type, user_context, language, current_month) ==
  CASE agent = "finance" /\ query_type = "debt_forecast" ->
         handle_debt_forecast(user_context, language)
    [] agent = "finance" /\ query_type = "subsidy_info" ->
         handle_reading(agent, self.data, "subsidy_schemes", language)
    [] agent = "finance" /\ query_type = "repayment_strategy" ->
         handle_repayment_strategy(user_context, language)
    [] agent = "agronomy" /\ query_type = "crop_recommendation" ->
         handle_crop_recommendation(self.data, user_context, language,
                                    current_month)
    [] agent = "agronomy" /\ query_type = "soil_health" ->
         handle_reading(agent, self.data, "punjab_data", language)
    [] agent = "market" /\ query_type = "price_inquiry" ->
         handle_crops_reading(self.data, "current_prices", user_context,
                              language)
    [] agent = "market" /\ query_type = "selling_strategy" ->
         handle_selling_strategy(self.data, user_context, language)
    [] agent = "market" /\ query_type = "mandi_info" ->
         handle_reading(agent, self.data, "mandi_info", language)
    [] agent = "market" /\ query_type = "demand_forecast" ->
         handle_crops_reading(self.data, "demand_forecast", user_context,
                              language)
    [] agent = "policy" /\ query_type = "scheme_info" ->
         handle_scheme_info(self.data, user_context, language)
    [] agent = "policy" /\ query_type \in {"eligibility_check", "subsidy_info"} ->
         handle_reading(agent, self.data, "schemes", language)
    [] agent = "risk" /\ query_type = "weather_alert" ->
         handle_reading(agent, self.data, "weather_alerts", language)
    [] agent = "risk" /\ query_type = "pest_alert" ->
         handle_reading(agent, self.data, "pest_alerts", language)
    [] agent = "risk" /\ query_type = "risk_assessment" ->
         handle_risk_assessment(self.data, language)
    [] OTHER -> Rendered(AdviceText(agent, language))

advisor_process_no_except(agent, self, query, user_context, language, month, fault) ==
  LET query_type == analyze_advisor_query(agent, query)
      handled == IF fault THEN Raises("Exception")
                 ELSE run_handler(agent, self, query_type, user_context,
                                  language, month)
  IN [query_type |-> query_type, raised |-> handled.raised,
      propagated |-> handled.raised,
      result |-> handled.text,
      divisors |-> handled.divisors, ranked |-> handled.ranked]

\* <Advisor>Agent.process: the sub-classifier, the selected handler, and the
\* except branch that answers _get_error_response(language)
advisor_process(agent, self, query, user_context, language, month, fault) ==
  LET query_type == analyze_advisor_query(agent, query)
      handled == IF fault THEN Raises("Exception")
                 ELSE run_handler(agent, self, query_type, user_context,
                                  language, month)
  IN [query_type |-> query_type, raised |-> handled.raised,
      propagated |-> FALSE,
      result |-> IF handled.raised THEN AdvisorApology(agent, language)
                 ELSE handled.text,
      divisors |-> handled.divisors, ranked |-> handled.ranked]

Q_Debt == <<"D","e","b","t"," ","f","r","e","e">>
Q_loan == <<"l","o","a","n">>
Q_subsidy == <<"s","u","b","s","i","d","y">>
Q_crop == <<"w","h","i","c","h"," ","c","r","o","p">>
Q_pest == <<"p","e","s","t">>
Q_price == <<"p","r","i","c","e">>
Q_rain == <<"r","a","i","n">>
Q_hello == <<"h","e","l","l","o">>
Q_repay == <<"r","e","p","a","y">>
Q_soil == <<"s","o","i","l">>
Q_method == <<"m","e","t","h","o","d">>
Q_sell == <<"s","e","l","l">>
Q_haat == <<"h","a","a","t">>
Q_demand == <<"d","e","m","a","n","d">>
Q_scheme == <<"s","c","h","e","m","e">>
Q_check == <<"c","h","e","c","k">>
Q_apply == <<"a","p","p","l","y">>
Q_risk == <<"r","i","s","k">>
Q_protect == <<"p","r","o","t","e","c","t">>

\* the queries put to an advisor
AdvisorQueries ==
  {Q_Debt, Q_loan, Q_subsidy, Q_crop, Q_pest, Q_price, Q_rain, Q_hello,
   Q_repay, Q_soil, Q_method, Q_sell, Q_haat, Q_demand, Q_scheme, Q_check,
   Q_apply, Q_risk, Q_protect}

\* a loan of a user context: owing, paid off, or without a "remaining" key
LoanChoices ==
  {[amount |-> 50000, remaining |-> 35000],
   [amount |-> 50000, remaining |-> 0],
   [amount |-> 50000]}

LoanLists == UNION {[1..n -> LoanChoices] : n \in 0..MaxLoans}

\* soil_health of a user context; ph is in tenths
SoilHealths ==
  {[ph |-> 72], [ph |-> 72, type |-> "loamy"], [ph |-> 72, type |-> "clay"]}

\* the user contexts handed to an advisor: every list of loans, every soil,
\* a context without loans and soil data, the orchestrator's context, and
\* one whose crop no table lists
AdvisorContexts ==
  {[current_loans |-> loans, soil_health |-> [ph |-> 72]] :
      loans \in LoanLists}
  \cup {[current_loans |-> <<[amount |-> 50000, remaining |-> 35000]>>,
         soil_health |-> soil_health] : soil_health \in SoilHealths}
  \cup {[location |-> "Punjab"]}
  \cup {get_user_context("farmer1")}
  \cup {[location |-> "Punjab", current_crops |-> <<[name |-> "bajra"]>>]}

\* datetime.now().month
Months == 1..12

\* the months an advisor's call is made in: the Agronomy and Risk advisors
\* read the clock (_get_current_season), the others never do and are called
\* in January
clock_months(agent) ==
  IF agent \in {"agronomy", "risk"} THEN Months ELSE {1}

\* the "remaining" amounts of the loans handed to the forecast, in whole rupees
ForecastRemaining == {0, 3, 7, 35000, 59999, 60001, 70000}

\* the user contexts handed to the forecast: every list of such loans
ForecastContexts ==
  {[current_loans |-> loans] :
      loans \in UNION {[1..n -> {[remaining |-> r] : r \in ForecastRemaining}] : n \in 0..MaxLoans}}

\* ------------------------------------ LLM fallback service: the history
\* the calls of get_krishi_mitra_response that one run makes
MaxCalls == 2

\* the turns a user has completed before the run
MaxEarlierTurns == 10

LLMUsers == {"farmer1", "farmer2"}

LLMQueries == {W_loan, W_train}

\* message.content of a completion that carries no text (Python's None)
NoneContent == <<Sep("<None>")>>

update_conversation_history_one_list(conversation_history, user_id, user_query, ai_response) ==
  LET extended ==
        DictGet(conversation_history, user_id, <<>>)
          \o <<[role |-> "user", content |-> user_query],
               [role |-> "assistant", content |-> ai_response]>>
      kept == IF Len(extended) > 20
              THEN SubSeq(extended, Len(extended) - 19, Len(extended))
              ELSE extended
  IN [u \in DOMAIN conversation_history \cup {user_id} |-> kept]

update_conversation_history_keep_first(conversation_history, user_id, user_query, ai_response) ==
  LET extended ==
        DictGet(conversation_history, user_id, <<>>)
          \o <<[role |-> "user", content |-> user_query],
               [role |-> "assistant", content |-> ai_response]>>
  IN (user_id :>
        IF Len(extended) > 20 THEN SubSeq(extended, 1, 20) ELSE extended)
     @@ conversation_history

\* OpenAIService._update_conversation_history: extend the user's list with
\* the two entries, then keep its last 20
update_conversation_history(conversation_history, user_id, user_query, ai_response) ==
  LET extended ==
        DictGet(conversation_history, user_id, <<>>)
          \o <<[role |-> "user", content |-> user_query],
               [role |-> "assistant", content |-> ai_response]>>
  IN (user_id :>
        IF Len(extended) > 20
        THEN SubSeq(extended, Len(extended) - 19, Len(extended))
        ELSE extended)
     @@ conversation_history

\* self.conversation_history after k successful calls of one user, one after
\* the other, since __init__ left it empty
RECURSIVE earlier_turns(_)
earlier_turns(k) ==
  IF k = 0 THEN <<>>
  ELSE update_conversation_history(earlier_turns(k - 1), "farmer1", W_train,
                                   <<P("hi", "namaste kisan bhai")>>)

\* how the awaited completion ends: a reply, an exception of the client, or
\* a reply whose content is None
CompletionOutcomes ==
  {[kind |-> "reply", content |-> r] : r \in LLMReplies}
  \cup {[kind |-> "api_error", content |-> NoneContent],
        [kind |-> "null_content", content |-> NoneContent]}

krishi_mitra_resume_no_except(conversation_history, call, outcome) ==
  IF outcome.kind = "api_error"
  THEN [conversation_history |-> conversation_history,
        raised |-> TRUE, payload |-> get_fallback_response("")]
  ELSE [conversation_history |->
          update_conversation_history(conversation_history, call.user_id,
                                      call.query, outcome.content),
        raised |-> outcome.kind = "null_content",
        payload |-> krishi_mitra_payload(call.query, call.language,
                                         outcome.content)]

\* get_krishi_mitra_response from the point where the awaited completion
\* ends (lines 41-69): an exception of the client goes to the except branch;
\* a reply is stored in the history before _process_for_voice splits it, and
\* None has no split, so that reply goes to the except branch as well
krishi_mitra_resume(conversation_history, call, outcome) ==
  IF outcome.kind = "api_error"
  THEN [conversation_history |-> conversation_history,
        raised |-> FALSE,
        payload |-> get_fallback_response(call.language)]
  ELSE [conversation_history |->
          update_conversation_history(conversation_history, call.user_id,
                                      call.query, outcome.content),
        raised |-> FALSE,
        payload |-> IF outcome.kind = "null_content"
                    THEN get_fallback_response(call.language)
                    ELSE krishi_mitra_payload(call.query, call.language,
                                              outcome.content)]

\* ------------------------------------------------------ WebSocket endpoint
\* the inbound frames one connection's handler reads
MaxFrames == 2

ClientIds == {"client1", "client2"}

Raw_object ==
  <<"{","\"","m","e","s","s","a","g","e","\"",":"," ","\"","l",
       "o","a","n","\"",","," ","\"","l","a","n","g","u","a","g",
       "e","\"",":"," ","\"","e","n","\"","}">>

Raw_message_only ==
  <<"{","\"","m","e","s","s","a","g","e","\"",":"," ","\"","t",
       "r","a","i","n","\"","}">>

Raw_language_only ==
  <<"{","\"","l","a","n","g","u","a","g","e","\"",":"," ","\"",
       "e","n","\"","}">>

Raw_number ==
  <<"4","2">>

Raw_string ==
  <<"\"","l","o","a","n","\"">>

Raw_array ==
  <<"[","1","]">>

Raw_null ==
  <<"n","u","l","l">>

Raw_text ==
  <<"l","o","a","n">>

\* the text frames a client sends, each with the value json.loads gives for
\* it: a dict, another JSON value (the name of its Python type), or
\* "JSONDecodeError" for text that is not JSON
WsFrames ==
  {[raw |-> Raw_object, type |-> "dict",
    value |-> [message |-> W_loan, language |-> "en"]],
   [raw |-> Raw_message_only, type |-> "dict", value |-> [message |-> W_train]],
   [raw |-> Raw_language_only, type |-> "dict", value |-> [language |-> "en"]],
   [raw |-> Raw_number, type |-> "int", value |-> <<>>],
   [raw |-> Raw_string, type |-> "str", value |-> <<>>],
   [raw |-> Raw_array, type |-> "list", value |-> <<>>],
   [raw |-> Raw_null, type |-> "NoneType", value |-> <<>>],
   [raw |-> Raw_text, type |-> "JSONDecodeError", value |-> <<>>]}

\* WebSocketManager.connect, lines 31-36: the welcome frame
welcome_message ==
  [type |-> "welcome",
   message |-> <<P("hi", "namaskar, I am KrishiSampann")>>,
   language |-> "hi"]

\* no frame read yet
NoFrame == [raw |-> <<>>, type |-> "none", value |-> <<>>]

\* websocket_endpoint, lines 65-71: json.loads, then .get on its value; only
\* JSONDecodeError is caught, so the AttributeError of a value without .get
\* (a number, a string, a list, null) leaves the handler
parse_frame(frame) ==
  IF frame.type = "JSONDecodeError"
  THEN [raised |-> "", query |-> frame.raw, language |-> "hi"]
  ELSE IF frame.type = "dict"
  THEN [raised |-> "",
        query |-> DictGet(frame.value, "message", frame.raw),
        language |-> DictGet(frame.value, "language", "hi")]
  ELSE [raised |-> "AttributeError", query |-> <<>>, language |-> ""]

\* _process_with_agents with every advisor ending the same way
RECURSIVE process_all_agents(_, _, _, _)
process_all_agents(responses, involved_agents, language, outcome) ==
  IF involved_agents = <<>> THEN responses
  ELSE process_all_agents(
         process_one_agent(responses, Head(involved_agents), language, outcome),
         Tail(involved_agents), language, outcome)

\* what process_query can return for a query: the error payload, and the
\* comprehensive response or the LLM fallback service's payload
process_query_results(query, user_id, language) ==
  {get_error_response(language)}
  \cup
  (IF is_comprehensive_query(query)
   THEN {LET intent_an == analyze_intent(query, language)
             responses == process_all_agents(<<>>, intent_an.involved_agents,
                                             language, outcome)
         IN comprehensive_response(synthesize_response(responses, language),
                                   intent_an, get_user_context(user_id),
                                   responses, language) :
           outcome \in {"ok", "apology", "raise"}}
   ELSE {krishi_mitra_payload(query, language, ai_response) :
           ai_response \in LLMReplies}
        \cup {get_fallback_response(language)})

\* ------------------------------------------------------- WebSocketManager
\* the connections accepted in a run
MaxSockets == 3

\* a dict with d[key] = value, and a dict with key deleted
DictSet(d, key, value) == [k \in DOMAIN d \cup {key} |-> IF k = key THEN value ELSE d[k]]

DictDel(d, key) == [k \in DOMAIN d \ {key} |-> d[k]]

\* websocket_manager.py lines 23-27: the session that connect creates
new_user_session == [language |-> "hi", context |-> <<>>, conversation_history |-> <<>>]

\* WebSocketManager.connect, lines 20-27, on the two dicts of the manager
manager_connect(m, websocket, client_id) ==
  [active_connections |-> DictSet(m.active_connections, client_id, websocket),
   user_sessions |-> DictSet(m.user_sessions, client_id, new_user_session)]

\* disconnect deleting the connection and keeping the session
manager_disconnect_keep_session(m, client_id) ==
  [active_connections |-> DictDel(m.active_connections, client_id),
   user_sessions |-> m.user_sessions]

\* WebSocketManager.disconnect, lines 39-47
manager_disconnect(m, client_id) ==
  [active_connections |-> IF client_id \in DOMAIN m.active_connections THEN DictDel(m.active_connections, client_id) ELSE m.active_connections,
   user_sessions |-> IF client_id \in DOMAIN m.user_sessions THEN DictDel(m.user_sessions, client_id) ELSE m.user_sessions]

\* lines 70-71: disconnect for every client id of disconnected_clients
RECURSIVE manager_disconnect_all(_, _)
manager_disconnect_all(m, client_ids) ==
  IF client_ids = {} THEN m
  ELSE LET client_id == CHOOSE c \in client_ids : TRUE
       IN manager_disconnect_all(manager_disconnect(m, client_id), client_ids \ {client_id})

\* broadcast_message is not running
NoBroadcast == [pc |-> "idle"]

\* a running broadcast_message after the dicts were changed by someone else
broadcast_sees_change(b) == IF b.pc = "iterating" THEN [b EXCEPT !.changed = TRUE] ELSE b

\* ------------------------------------------------- text-to-speech endpoint
\* TTSRequest: text is required; language and voice have defaults
TTSTexts == {<<>>} \cup Words

TTSRequests ==
  {[text |-> text, language |-> language, voice |-> voice, user_id |-> user_id] :
     text \in TTSTexts, language \in {"hi", "en", ""},
     voice \in {"alloy", ""}, user_id \in UserIds}

\* how VoiceProcessor.text_to_speech ends: audio from the external API, an
\* exception of the API call, or no client at all (no API key)
TTSOutcomes == {"audio", "api_error", "no_client"}

\* VoiceProcessor.text_to_speech, lines 149-208: its own except turns every
\* failure into a result with success False
voice_text_to_speech(text, language, outcome) ==
  IF outcome = "audio"
  THEN [success |-> TRUE, text |-> text, duration |-> 1]
  ELSE [success |-> FALSE, error |-> "TTS error", duration |-> 0]

\* text_to_speech, lines 319-322: the except branch of the endpoint
tts_except == [status |-> 500, detail |-> "Error processing text to speech"]

\* ------------------------------------------------------------------ state
VARIABLES
  request,          \* the ChatRequest being served
  pc,               \* position of the chat-send handler and of process_query
  user_context,     \* process_query: user_context
  intent_analysis,  \* process_query: intent_analysis
  agent_responses,  \* _process_with_agents: responses
  agent_i,          \* _process_with_agents: index of the loop
  response,         \* process_query: response
  result,           \* send_message: result (what process_query returned)
  http_response,    \* what the endpoint answers
  advisor_calls,    \* the advisors whose process was invoked, in order
  advisor_raised,   \* the advisors whose process raised
  llm_calls,        \* calls of openai_service.get_krishi_mitra_response
  orchestrator_calls, \* calls of agent_orchestrator.process_query
  raised_at,        \* the step of process_query an exception escaped from
  adv,              \* one call of an advisor's process (SpecAdvisor)
  llm,              \* the LLM fallback service and its callers (SpecLLM)
  ws,               \* the WebSocket endpoint (SpecWS)
  boot,             \* process start-up and the two orchestrators (SpecBoot)
  tts               \* the text-to-speech endpoint (SpecTTS)

chat_vars == <<request, pc, user_context, intent_analysis, agent_responses,
               agent_i, response, result, http_response, advisor_calls,
               advisor_raised, llm_calls, orchestrator_calls, raised_at>>

vars == <<chat_vars, adv, llm, ws, boot, tts>>

\* what the chat-send actions leave alone
not_chat == <<adv, llm, ws, boot, tts>>

\* Python's None
None == [none |-> TRUE]

\* no advisor call is in progress
AdvIdle == adv = [pc |-> "idle"]

\* the LLM fallback service has served no call
LlmIdle == llm = [pc |-> "idle"]

\* no WebSocket connection
WsIdle == ws = [pc |-> "idle"]

\* the process has not started
BootIdle == boot = [pc |-> "idle"]

\* no text-to-speech request is being served
TtsIdle == tts = [pc |-> "idle"]

\* the steps inside the try of process_query (lines 61-94)
TrySteps == {"get_user_context", "analyze_intent", "gate", "agents",
             "synthesize", "llm", "log"}

Outcomes == {"ok", "apology", "raise"}

ChatIdle ==
  /\ request = None
  /\ pc = "idle"
  /\ user_context = None
  /\ intent_analysis = None
  /\ agent_responses = <<>>
  /\ agent_i = 0
  /\ response = None
  /\ result = None
  /\ http_response = None
  /\ advisor_calls = <<>>
  /\ advisor_raised = {}
  /\ llm_calls = 0
  /\ orchestrator_calls = 0
  /\ raised_at = ""

Init ==
  /\ ChatIdle
  /\ AdvIdle
  /\ LlmIdle
  /\ WsIdle
  /\ BootIdle
  /\ TtsIdle

\* send_message, lines 27-53: a request arrives and is validated.  The
\* HTTPException(400) raised for an empty message is raised inside the try
\* and HTTPException derives from Exception, so the except branch of lines
\* 84-101 catches it and answers with the fallback ChatResponse.
send_message ==
  /\ pc = "idle"
  /\ \E req \in Requests :
       /\ request' = req
       /\ IF strip(req.message) = <<>>
          THEN /\ http_response' = endpoint_fallback(req)
               /\ orchestrator_calls' = 0
               /\ pc' = "done"
          ELSE /\ http_response' = None
               /\ orchestrator_calls' = 1
               /\ pc' = "get_user_context"
  /\ UNCHANGED <<user_context, intent_analysis, agent_responses, agent_i,
                 response, result, advisor_calls, advisor_raised, llm_calls,
                 raised_at>>
  /\ UNCHANGED not_chat

\* process_query, line 63
fetch_user_context ==
  /\ pc = "get_user_context"
  /\ user_context' = get_user_context(IF request.user_id \in {NoneId, ""}
                                      THEN "anonymous" ELSE request.user_id)
  /\ pc' = "analyze_intent"
  /\ UNCHANGED <<request, intent_analysis, agent_responses, agent_i,
                 response, result, http_response, advisor_calls,
                 advisor_raised, llm_calls, orchestrator_calls, raised_at>>
  /\ UNCHANGED not_chat

\* process_query, line 66
run_analyze_intent ==
  /\ pc = "analyze_intent"
  /\ intent_analysis' = analyze_intent(request.message, request.language)
  /\ pc' = "gate"
  /\ UNCHANGED <<request, user_context, agent_responses, agent_i, response,
                 result, http_response, advisor_calls, advisor_raised,
                 llm_calls, orchestrator_calls, raised_at>>
  /\ UNCHANGED not_chat

\* the gate deciding on the intent classifier's keywords instead of the
\* comprehensive keywords
comprehensive_gate_by_intent ==
  /\ pc = "gate"
  /\ IF \E k \in 1..Len(intent_keywords) :
          any_keyword_in(intent_keywords[k].keywords, lower(request.message))
     THEN /\ agent_responses' = <<>>
          /\ agent_i' = 1
          /\ pc' = "agents"
     ELSE /\ pc' = "llm"
          /\ UNCHANGED <<agent_responses, agent_i>>
  /\ UNCHANGED <<request, user_context, intent_analysis, response, result,
                 http_response, advisor_calls, advisor_raised, llm_calls,
                 orchestrator_calls, raised_at>>
  /\ UNCHANGED not_chat

\* process_query, line 69 (and line 147 when the gate opens)
comprehensive_gate ==
  /\ pc = "gate"
  /\ IF is_comprehensive_query(request.message)
     THEN /\ agent_responses' = <<>>
          /\ agent_i' = 1
          /\ pc' = IF Len(intent_analysis.involved_agents) = 0
                   THEN "synthesize" ELSE "agents"
     ELSE /\ pc' = "llm"
          /\ UNCHANGED <<agent_responses, agent_i>>
  /\ UNCHANGED <<request, user_context, intent_analysis, response, result,
                 http_response, advisor_calls, advisor_raised, llm_calls,
                 orchestrator_calls, raised_at>>
  /\ UNCHANGED not_chat

\* _process_with_agents, lines 149-160: one iteration of the loop over
\* involved_agents; after the last one the mapping is returned
process_with_agents(outcome) ==
  /\ pc = "agents"
  /\ agent_i <= Len(intent_analysis.involved_agents)
  /\ LET agent_name == intent_analysis.involved_agents[agent_i]
     IN /\ agent_responses' = process_one_agent(agent_responses, agent_name,
                                                request.language, outcome)
        /\ advisor_calls' = IF agent_name \in agents
                            THEN Append(advisor_calls, agent_name)
                            ELSE advisor_calls
        /\ advisor_raised' = IF agent_name \in agents /\ outcome = "raise"
                             THEN advisor_raised \cup {agent_name}
                             ELSE advisor_raised
  /\ agent_i' = agent_i + 1
  /\ pc' = IF agent_i = Len(intent_analysis.involved_agents)
           THEN "synthesize" ELSE "agents"
  /\ UNCHANGED <<request, user_context, intent_analysis, response, result,
                 http_response, llm_calls, orchestrator_calls, raised_at>>
  /\ UNCHANGED not_chat

\* process_query, lines 72-86
synthesize ==
  /\ pc = "synthesize"
  /\ response' = comprehensive_response(
                   synthesize_response(agent_responses, request.language),
                   intent_analysis, user_context, agent_responses,
                   request.language)
  /\ pc' = "log"
  /\ UNCHANGED <<request, user_context, intent_analysis, agent_responses,
                 agent_i, result, http_response, advisor_calls,
                 advisor_raised, llm_calls, orchestrator_calls, raised_at>>
  /\ UNCHANGED not_chat

\* process_query, line 89: get_krishi_mitra_response either gets a reply
\* from the completion API or fails and returns its fallback payload
llm_fallback ==
  /\ pc = "llm"
  /\ llm_calls' = llm_calls + 1
  /\ \/ \E ai_response \in LLMReplies :
          response' = krishi_mitra_payload(request.message, request.language,
                                           ai_response)
     \/ response' = get_fallback_response(request.language)
  /\ pc' = "log"
  /\ UNCHANGED <<request, user_context, intent_analysis, agent_responses,
                 agent_i, result, http_response, advisor_calls,
                 advisor_raised, orchestrator_calls, raised_at>>
  /\ UNCHANGED not_chat

log_conversation_classifier_intent ==
  /\ pc = "log"
  /\ result' = [response EXCEPT !.intent = intent_analysis.primary_intent]
  /\ pc' = "endpoint"
  /\ UNCHANGED <<request, user_context, intent_analysis, agent_responses,
                 agent_i, response, http_response, advisor_calls,
                 advisor_raised, llm_calls, orchestrator_calls, raised_at>>
  /\ UNCHANGED not_chat

\* process_query, lines 92-94
log_conversation ==
  /\ pc = "log"
  /\ result' = response
  /\ pc' = "endpoint"
  /\ UNCHANGED <<request, user_context, intent_analysis, agent_responses,
                 agent_i, response, http_response, advisor_calls,
                 advisor_raised, llm_calls, orchestrator_calls, raised_at>>
  /\ UNCHANGED not_chat

\* the except branch indexing error_responses[language]: for a language
\* without an entry the KeyError leaves process_query and the endpoint's
\* except branch answers
process_query_except_keyerror ==
  /\ pc \in TrySteps
  /\ raised_at' = pc
  /\ IF request.language \in {"hi", "en"}
     THEN /\ result' = get_error_response(request.language)
          /\ pc' = "endpoint"
          /\ UNCHANGED http_response
     ELSE /\ http_response' = endpoint_fallback(request)
          /\ pc' = "done"
          /\ UNCHANGED result
  /\ UNCHANGED <<request, user_context, intent_analysis, agent_responses,
                 agent_i, response, advisor_calls, advisor_raised, llm_calls,
                 orchestrator_calls>>
  /\ UNCHANGED not_chat

\* process_query, lines 96-98: an exception leaves a step of the try
process_query_except ==
  /\ pc \in TrySteps
  /\ raised_at' = pc
  /\ result' = get_error_response(request.language)
  /\ pc' = "endpoint"
  /\ UNCHANGED <<request, user_context, intent_analysis, agent_responses,
                 agent_i, response, http_response, advisor_calls,
                 advisor_raised, llm_calls, orchestrator_calls>>
  /\ UNCHANGED not_chat

\* send_message, lines 55-82
send_message_return ==
  /\ pc = "endpoint"
  /\ http_response' = chat_response(result, request)
  /\ pc' = "done"
  /\ UNCHANGED <<request, user_context, intent_analysis, agent_responses,
                 agent_i, response, result, advisor_calls, advisor_raised,
                 llm_calls, orchestrator_calls, raised_at>>
  /\ UNCHANGED not_chat

\* send_message, lines 84-101: an exception inside the endpoint itself
send_message_except ==
  /\ pc = "endpoint"
  /\ http_response' = endpoint_fallback(request)
  /\ pc' = "done"
  /\ UNCHANGED <<request, user_context, intent_analysis, agent_responses,
                 agent_i, response, result, advisor_calls, advisor_raised,
                 llm_calls, orchestrator_calls, raised_at>>
  /\ UNCHANGED not_chat

\* the response has been sent; the server waits for the next request
next_request ==
  /\ pc = "done"
  /\ pc' = "idle"
  /\ request' = None
  /\ user_context' = None
  /\ intent_analysis' = None
  /\ agent_responses' = <<>>
  /\ agent_i' = 0
  /\ response' = None
  /\ result' = None
  /\ http_response' = None
  /\ advisor_calls' = <<>>
  /\ advisor_raised' = {}
  /\ llm_calls' = 0
  /\ orchestrator_calls' = 0
  /\ raised_at' = ""
  /\ UNCHANGED not_chat

Next ==
  \/ send_message
  \/ fetch_user_context
  \/ run_analyze_intent
  \/ comprehensive_gate
  \/ \E outcome \in Outcomes : process_with_agents(outcome)
  \/ synthesize
  \/ llm_fallback
  \/ log_conversation
  \/ process_query_except
  \/ send_message_return
  \/ send_message_except
  \/ next_request

Spec == Init /\ [][Next]_vars

\* ------------------------------------------------- one advisor, one call
\* a caller invokes an advisor (initialized or not) with a query, a user
\* context and a language, in some month of the year
advisor_call ==
  /\ adv.pc = "idle"
  /\ \E agent \in AgentNames, initialized \in BOOLEAN,
        query \in AdvisorQueries, context \in AdvisorContexts,
        language \in Languages :
     \E month \in clock_months(agent) :
       adv' = [pc |-> "called", agent |-> agent,
               self |-> advisor_object(agent, initialized),
               query |-> query, user_context |-> context,
               language |-> language, month |-> month]
  /\ UNCHANGED <<chat_vars, llm, ws, boot, tts>>

\* <Advisor>Agent.process runs to its return
advisor_run_process(fault) ==
  /\ adv.pc = "called"
  /\ LET out == advisor_process(adv.agent, adv.self, adv.query,
                                adv.user_context, adv.language, adv.month,
                                fault)
     IN adv' = [pc |-> "returned", op |-> "process", agent |-> adv.agent,
                self |-> adv.self, query |-> adv.query,
                user_context |-> adv.user_context,
                language |-> adv.language, month |-> adv.month,
                injected |-> fault, query_type |-> out.query_type,
                raised |-> out.raised, propagated |-> out.propagated,
                result |-> out.result, divisors |-> out.divisors,
                ranked |-> out.ranked,
                season |-> advisor_current_season(adv.agent, adv.month)]
  /\ UNCHANGED <<chat_vars, llm, ws, boot, tts>>

\* FinanceAgent._calculate_debt_forecast applied to the user context on its
\* own, as get_debt_forecast (lines 401-423) applies it
advisor_run_calculate_debt_forecast ==
  /\ adv.pc = "called"
  /\ adv.agent = "finance"
  /\ LET forecast == calculate_debt_forecast(adv.user_context)
     IN adv' = [pc |-> "returned", op |-> "calculate_debt_forecast",
                agent |-> adv.agent, self |-> adv.self, query |-> adv.query,
                user_context |-> adv.user_context,
                language |-> adv.language, month |-> adv.month,
                injected |-> FALSE, query_type |-> "",
                raised |-> FALSE, propagated |-> FALSE,
                result |-> <<>>, divisors |-> forecast.divisors,
                ranked |-> <<>>, season |-> ""]
  /\ UNCHANGED <<chat_vars, llm, ws, boot, tts>>

\* the caller has the result
advisor_return ==
  /\ adv.pc = "returned"
  /\ adv' = [pc |-> "idle"]
  /\ UNCHANGED <<chat_vars, llm, ws, boot, tts>>

NextAdvisor ==
  \/ advisor_call
  \/ \E fault \in BOOLEAN : advisor_run_process(fault)
  \/ advisor_run_calculate_debt_forecast
  \/ advisor_return

SpecAdvisor == Init /\ [][NextAdvisor]_vars

\* ------------------------------------------------- the debt forecast alone
\* a caller hands a user context to FinanceAgent._calculate_debt_forecast
forecast_call ==
  /\ adv.pc = "idle"
  /\ \E context \in ForecastContexts :
       adv' = [pc |-> "forecasting", user_context |-> context]
  /\ UNCHANGED <<chat_vars, llm, ws, boot, tts>>

\* lines 226-231: current_debt, monthly_payment and months_to_freedom; and
\* line 248: the monthly_payment of the returned dict, int(monthly_payment)
forecast_run ==
  /\ adv.pc = "forecasting"
  /\ LET current_debt == sum_remaining(DictGet(adv.user_context, "current_loans", <<>>))
     IN adv' = [pc |-> "forecast", user_context |-> adv.user_context,
                current_debt |-> current_debt,
                monthly_payment |-> forecast_monthly_payment(current_debt),
                months_to_freedom |-> forecast_months_to_freedom(current_debt),
                returned_monthly_payment |-> float_int(forecast_monthly_payment(current_debt))]
  /\ UNCHANGED <<chat_vars, llm, ws, boot, tts>>

\* the caller has the forecast
forecast_return ==
  /\ adv.pc = "forecast"
  /\ adv' = [pc |-> "idle"]
  /\ UNCHANGED <<chat_vars, llm, ws, boot, tts>>

NextForecast ==
  \/ forecast_call
  \/ forecast_run
  \/ forecast_return

SpecForecast == Init /\ [][NextForecast]_vars

\* ------------------------------------ LLM fallback service, its callers
\* the process has been up for a while: one user has had some turns
llm_earlier_turns ==
  /\ llm.pc = "idle"
  /\ \E k \in {0} \cup ((MaxEarlierTurns - 1)..MaxEarlierTurns) :
       llm' = [pc |-> "serving", conversation_history |-> earlier_turns(k),
               calls |-> {}, served |-> 0]
  /\ UNCHANGED <<chat_vars, adv, ws, boot, tts>>

\* get_krishi_mitra_response up to the awaited completion (lines 23-48);
\* the history it reads in line 31 only goes into the messages it sends
llm_call ==
  /\ llm.pc \in {"serving", "returned"}
  /\ llm.served < MaxCalls
  /\ \E user_id \in LLMUsers, query \in LLMQueries, language \in Languages :
       llm' = [pc |-> "serving",
               conversation_history |-> llm.conversation_history,
               calls |-> llm.calls \cup
                          {[id |-> llm.served + 1, user_id |-> user_id,
                            query |-> query, language |-> language]},
               served |-> llm.served + 1]
  /\ UNCHANGED <<chat_vars, adv, ws, boot, tts>>

\* the awaited completion of one of the calls in flight ends and the call
\* runs to its return without giving up control (lines 50-69)
llm_resume ==
  /\ llm.pc \in {"serving", "returned"}
  /\ \E call \in llm.calls, outcome \in CompletionOutcomes :
       LET out == krishi_mitra_resume(llm.conversation_history, call, outcome)
       IN llm' = [pc |-> "returned",
                  conversation_history |-> out.conversation_history,
                  calls |-> llm.calls \ {call},
                  served |-> llm.served,
                  call |-> call, outcome |-> outcome,
                  before |-> llm.conversation_history,
                  raised |-> out.raised, payload |-> out.payload]
  /\ UNCHANGED <<chat_vars, adv, ws, boot, tts>>

NextLLM ==
  \/ llm_earlier_turns
  \/ llm_call
  \/ llm_resume

SpecLLM == Init /\ [][NextLLM]_vars

\* --------------------------------------- start-up and the orchestrators
\* AgentOrchestrator.__init__: five advisors, each with initialized False
new_orchestrator == [a \in AgentNames |-> FALSE]

\* AgentOrchestrator.initialize: the gather runs every advisor's initialize;
\* those that complete set their flag, a failing one raises
initialize_orchestrator(orchestrator, failing) ==
  [a \in AgentNames |-> orchestrator[a] \/ a \notin failing]

\* the process imports its modules: main.py line 23 creates one
\* AgentOrchestrator, agent_orchestrator.py line 277 creates another, the
\* one that chat.py imports
boot_import ==
  /\ boot.pc = "idle"
  /\ boot' = [pc |-> "imported",
              main_agent_orchestrator |-> new_orchestrator,
              chat_agent_orchestrator |-> new_orchestrator,
              last |-> [endpoint |-> "none"]]
  /\ UNCHANGED <<chat_vars, adv, llm, ws, tts>>

\* lifespan, lines 25-30: initialize() of main.py's orchestrator; when an
\* advisor's initialize raises, start-up is aborted, else requests are served
lifespan_startup ==
  /\ boot.pc = "imported"
  /\ \E failing \in SUBSET AgentNames :
       boot' = [boot EXCEPT
                  !.pc = IF failing = {} THEN "serving" ELSE "aborted",
                  !.main_agent_orchestrator =
                     initialize_orchestrator(boot.main_agent_orchestrator,
                                             failing)]
  /\ UNCHANGED <<chat_vars, adv, llm, ws, tts>>

\* chat.py get_agents_status, lines 184-207: the flags of the orchestrator
\* that chat.py imported
get_agents_status ==
  /\ boot.pc = "serving"
  /\ LET agents_status == boot.chat_agent_orchestrator
         active == {a \in AgentNames : agents_status[a]}
     IN boot' = [boot EXCEPT !.last =
                   [endpoint |-> "agents_status",
                    status |-> IF active = AgentNames THEN "healthy"
                               ELSE "degraded",
                    active_agents |-> Cardinality(active)]]
  /\ UNCHANGED <<chat_vars, adv, llm, ws, tts>>

\* a comprehensive query is served: chat send (chat.py line 49) by the
\* orchestrator that chat.py imported, a WebSocket frame (main.py line 74)
\* by main.py's; uninitialized lists the involved advisors whose
\* initialize() has not completed
serve_query ==
  /\ boot.pc = "serving"
  /\ \E endpoint \in {"chat_send", "websocket"},
        involved_agents \in SUBSET AgentNames \ {{}} :
       LET orchestrator == IF endpoint = "chat_send"
                           THEN boot.chat_agent_orchestrator
                           ELSE boot.main_agent_orchestrator
       IN boot' = [boot EXCEPT !.last =
                     [endpoint |-> endpoint,
                      involved_agents |-> involved_agents,
                      uninitialized |->
                        {a \in involved_agents : ~orchestrator[a]}]]
  /\ UNCHANGED <<chat_vars, adv, llm, ws, tts>>

\* lifespan, lines 31-32: the server stops serving
lifespan_shutdown ==
  /\ boot.pc = "serving"
  /\ boot' = [boot EXCEPT !.pc = "stopped"]
  /\ UNCHANGED <<chat_vars, adv, llm, ws, tts>>

NextBoot ==
  \/ boot_import
  \/ lifespan_startup
  \/ get_agents_status
  \/ serve_query
  \/ lifespan_shutdown

SpecBoot == Init /\ [][NextBoot]_vars

\* ------------------------------------------- one WebSocket connection
\* websocket_endpoint, line 58: WebSocketManager.connect accepts, registers
\* the client and its session and sends the welcome frame
ws_connect ==
  /\ ws.pc = "idle"
  /\ \E client_id \in ClientIds :
       ws' = [pc |-> "receiving", client_id |-> client_id,
              active_connections |-> {client_id},
              user_sessions |-> {client_id},
              frames_read |-> 0, frame |-> NoFrame,
              query |-> <<>>, language |-> "",
              sent |-> 0, outbound |-> welcome_message,
              ended_by |-> ""]
  /\ UNCHANGED <<chat_vars, adv, llm, boot, tts>>

\* lines 62-71: a text frame is read and parsed
ws_receive ==
  /\ ws.pc = "receiving"
  /\ ws.frames_read < MaxFrames
  /\ \E frame \in WsFrames :
       LET parsed == parse_frame(frame)
       IN ws' = [ws EXCEPT
                   !.frames_read = ws.frames_read + 1,
                   !.frame = frame,
                   !.sent = 0,
                   !.query = parsed.query,
                   !.language = parsed.language,
                   !.pc = IF parsed.raised = "" THEN "processing" ELSE "ended",
                   !.ended_by = parsed.raised]
  /\ UNCHANGED <<chat_vars, adv, llm, boot, tts>>

\* lines 62 and 79-80: the client has closed; receive_text raises
\* WebSocketDisconnect and the handler unregisters the client
ws_receive_disconnect ==
  /\ ws.pc = "receiving"
  /\ ws' = [ws EXCEPT
              !.pc = "ended",
              !.ended_by = "WebSocketDisconnect",
              !.active_connections = ws.active_connections \ {ws.client_id},
              !.user_sessions = ws.user_sessions \ {ws.client_id}]
  /\ UNCHANGED <<chat_vars, adv, llm, boot, tts>>

\* lines 74-77: process_query answers and the answer is sent as one frame
ws_respond ==
  /\ ws.pc = "processing"
  /\ \E answer \in process_query_results(ws.query, ws.client_id,
                                         ws.language) :
       ws' = [ws EXCEPT !.pc = "receiving", !.sent = ws.sent + 1,
                        !.outbound = answer]
  /\ UNCHANGED <<chat_vars, adv, llm, boot, tts>>

\* line 77 when the client has closed meanwhile: send_text raises, either
\* WebSocketDisconnect (caught, the client is unregistered) or a
\* RuntimeError (not caught)
ws_respond_client_gone ==
  /\ ws.pc = "processing"
  /\ \/ ws' = [ws EXCEPT
                 !.pc = "ended",
                 !.ended_by = "WebSocketDisconnect",
                 !.active_connections = ws.active_connections \ {ws.client_id},
                 !.user_sessions = ws.user_sessions \ {ws.client_id}]
     \/ ws' = [ws EXCEPT !.pc = "ended", !.ended_by = "RuntimeError"]
  /\ UNCHANGED <<chat_vars, adv, llm, boot, tts>>

NextWS ==
  \/ ws_connect
  \/ ws_receive
  \/ ws_receive_disconnect
  \/ ws_respond
  \/ ws_respond_client_gone

SpecWS == Init /\ [][NextWS]_vars

\* ------------------------------------ the WebSocketManager and its callers
\* ws holds the manager's two dicts, the handlers of the accepted connections
\* (numbered in the order of their accept) and the state of a running
\* broadcast_message.  Coroutines switch only at an await, so the code between
\* two awaits is one step.
manager_dicts == [active_connections |-> ws.active_connections, user_sessions |-> ws.user_sessions]

\* WebSocketManager.__init__, lines 13-15
new_websocket_manager ==
  /\ ws.pc = "idle"
  /\ ws' = [pc |-> "manager", active_connections |-> <<>>, user_sessions |-> <<>>,
            sockets |-> <<>>, broadcast |-> NoBroadcast]
  /\ UNCHANGED <<chat_vars, adv, llm, boot, tts>>

\* main.py line 58 and connect, lines 19-37, from the return of accept to the
\* await of the welcome's send_text
endpoint_connect ==
  /\ ws.pc = "manager"
  /\ Len(ws.sockets) < MaxSockets
  /\ \E client_id \in ClientIds :
       LET m == manager_connect(manager_dicts, Len(ws.sockets) + 1, client_id)
       IN ws' = [ws EXCEPT
                   !.active_connections = m.active_connections,
                   !.user_sessions = m.user_sessions,
                   !.sockets = Append(ws.sockets, [client_id |-> client_id, pc |-> "welcome", ended_by |-> ""]),
                   !.broadcast = broadcast_sees_change(ws.broadcast)]
  /\ UNCHANGED <<chat_vars, adv, llm, boot, tts>>

\* send_message, lines 52-56, for the welcome: send_text returns, or raises
\* and the client id is disconnected; the handler goes on to receive_text
endpoint_welcome_sent(s, sent) ==
  /\ ws.pc = "manager"
  /\ s \in 1..Len(ws.sockets)
  /\ ws.sockets[s].pc = "welcome"
  /\ LET m == IF sent THEN manager_dicts ELSE manager_disconnect(manager_dicts, ws.sockets[s].client_id)
     IN ws' = [ws EXCEPT
                 !.active_connections = m.active_connections,
                 !.user_sessions = m.user_sessions,
                 !.sockets[s].pc = "receiving",
                 !.broadcast = IF sent THEN ws.broadcast ELSE broadcast_sees_change(ws.broadcast)]
  /\ UNCHANGED <<chat_vars, adv, llm, boot, tts>>

\* main.py lines 62 and 79-80: the client closes, receive_text raises
\* WebSocketDisconnect and the handler disconnects its client id
endpoint_disconnect(s) ==
  /\ ws.pc = "manager"
  /\ s \in 1..Len(ws.sockets)
  /\ ws.sockets[s].pc = "receiving"
  /\ LET m == manager_disconnect(manager_dicts, ws.sockets[s].client_id)
     IN ws' = [ws EXCEPT
                 !.active_connections = m.active_connections,
                 !.user_sessions = m.user_sessions,
                 !.sockets[s].pc = "ended",
                 !.sockets[s].ended_by = "WebSocketDisconnect",
                 !.broadcast = broadcast_sees_change(ws.broadcast)]
  /\ UNCHANGED <<chat_vars, adv, llm, boot, tts>>

\* main.py lines 59-77: an exception other than WebSocketDisconnect leaves the
\* loop (an AttributeError of the parsing, a RuntimeError of send_text)
endpoint_raises(s) ==
  /\ ws.pc = "manager"
  /\ s \in 1..Len(ws.sockets)
  /\ ws.sockets[s].pc = "receiving"
  /\ ws' = [ws EXCEPT !.sockets[s].pc = "ended", !.sockets[s].ended_by = "Exception"]
  /\ UNCHANGED <<chat_vars, adv, llm, boot, tts>>

\* a caller of WebSocketManager.disconnect, lines 39-47, with any client id
call_disconnect(client_id) ==
  /\ ws.pc = "manager"
  /\ LET m == manager_disconnect(manager_dicts, client_id)
     IN ws' = [ws EXCEPT
                 !.active_connections = m.active_connections,
                 !.user_sessions = m.user_sessions,
                 !.broadcast = IF client_id \in DOMAIN ws.active_connections THEN broadcast_sees_change(ws.broadcast) ELSE ws.broadcast]
  /\ UNCHANGED <<chat_vars, adv, llm, boot, tts>>

\* a caller of WebSocketManager.send_message, lines 49-56, whose send_text
\* raises: the client id is disconnected.  (A send that succeeds, or one to an
\* unknown client id, changes nothing.)  The connection may have been replaced
\* while send_text was awaited: disconnect goes by client id.
call_send_message_fails(client_id) ==
  /\ ws.pc = "manager"
  /\ client_id \in DOMAIN ws.active_connections
  /\ LET m == manager_disconnect(manager_dicts, client_id)
     IN ws' = [ws EXCEPT
                 !.active_connections = m.active_connections,
                 !.user_sessions = m.user_sessions,
                 !.broadcast = broadcast_sees_change(ws.broadcast)]
  /\ UNCHANGED <<chat_vars, adv, llm, boot, tts>>

\* broadcast_message, lines 60-62: the iteration over active_connections starts
broadcast_start ==
  /\ ws.pc = "manager"
  /\ ws.broadcast = NoBroadcast
  /\ ws' = [ws EXCEPT !.broadcast =
              [pc |-> "iterating", size |-> Cardinality(DOMAIN ws.active_connections),
               visited |-> {}, sends |-> 0, disconnected_clients |-> {}, changed |-> FALSE]]
  /\ UNCHANGED <<chat_vars, adv, llm, boot, tts>>

\* lines 62-67: the next entry is sent to; a failed send is remembered.  While
\* nobody changed the dict every entry is visited once; after a change that
\* kept its size the iteration goes on by position, and may visit an entry
\* again or miss one.
broadcast_send(client_id, sent) ==
  /\ ws.pc = "manager"
  /\ ws.broadcast.pc = "iterating"
  /\ Cardinality(DOMAIN ws.active_connections) = ws.broadcast.size
  /\ client_id \in DOMAIN ws.active_connections
  /\ IF ws.broadcast.changed THEN ws.broadcast.sends < MaxSockets ELSE client_id \notin ws.broadcast.visited
  /\ ws' = [ws EXCEPT
              !.broadcast.visited = ws.broadcast.visited \cup {client_id},
              !.broadcast.sends = ws.broadcast.sends + 1,
              !.broadcast.disconnected_clients =
                  IF sent THEN ws.broadcast.disconnected_clients
                  ELSE ws.broadcast.disconnected_clients \cup {client_id}]
  /\ UNCHANGED <<chat_vars, adv, llm, boot, tts>>

\* line 62 after the dict changed its size during an await: the iteration
\* raises RuntimeError, which leaves broadcast_message before its clean-up
broadcast_raises ==
  /\ ws.pc = "manager"
  /\ ws.broadcast.pc = "iterating"
  /\ Cardinality(DOMAIN ws.active_connections) # ws.broadcast.size
  /\ ws' = [ws EXCEPT !.broadcast = NoBroadcast]
  /\ UNCHANGED <<chat_vars, adv, llm, boot, tts>>

\* lines 69-71: the iteration is over and the clients whose send failed are
\* disconnected
broadcast_cleanup ==
  /\ ws.pc = "manager"
  /\ ws.broadcast.pc = "iterating"
  /\ Cardinality(DOMAIN ws.active_connections) = ws.broadcast.size
  /\ ws.broadcast.changed \/ DOMAIN ws.active_connections \subseteq ws.broadcast.visited
  /\ LET m == manager_disconnect_all(manager_dicts, ws.broadcast.disconnected_clients)
     IN ws' = [ws EXCEPT
                 !.active_connections = m.active_connections,
                 !.user_sessions = m.user_sessions,
                 !.broadcast = NoBroadcast]
  /\ UNCHANGED <<chat_vars, adv, llm, boot, tts>>

NextWSManager ==
  \/ new_websocket_manager
  \/ endpoint_connect
  \/ \E s \in 1..MaxSockets, sent \in BOOLEAN : endpoint_welcome_sent(s, sent)
  \/ \E s \in 1..MaxSockets : endpoint_disconnect(s)
  \/ \E s \in 1..MaxSockets : endpoint_raises(s)
  \/ \E client_id \in ClientIds : call_disconnect(client_id)
  \/ \E client_id \in ClientIds : call_send_message_fails(client_id)
  \/ broadcast_start
  \/ \E client_id \in ClientIds, sent \in BOOLEAN : broadcast_send(client_id, sent)
  \/ broadcast_raises
  \/ broadcast_cleanup

SpecWSManager == Init /\ [][NextWSManager]_vars

\* ------------------------------------------- one text-to-speech request
\* text_to_speech, lines 253-284: the request is validated inside the try.
\* The HTTPException(400) raised for an empty text is an Exception, so the
\* except branch of lines 311-322 catches it and raises the 500 instead.
tts_request ==
  /\ tts.pc = "idle"
  /\ \E req \in TTSRequests :
       IF req.text = <<>>
       THEN tts' = [pc |-> "done", request |-> req, api_calls |-> 0,
                    raised_in_try |-> 400, http |-> tts_except]
       ELSE tts' = [pc |-> "calling",
                    request |-> [req EXCEPT
                       !.language = IF req.language = "" THEN "hi"
                                    ELSE req.language,
                       !.voice = IF req.voice = "" THEN "alloy"
                                 ELSE req.voice],
                    api_calls |-> 0, raised_in_try |-> 0,
                    http |-> [status |-> 0, detail |-> ""]]
  /\ UNCHANGED <<chat_vars, adv, llm, ws, boot>>

\* lines 286-309 and 311-322: the voice processor answers; a failed
\* conversion raises HTTPException(400) inside the try as well
tts_convert(outcome) ==
  /\ tts.pc = "calling"
  /\ LET converted == voice_text_to_speech(tts.request.text,
                                           tts.request.language, outcome)
     IN tts' = [tts EXCEPT
                  !.pc = "done",
                  !.api_calls = IF outcome = "no_client" THEN 0 ELSE 1,
                  !.raised_in_try = IF converted.success THEN 0 ELSE 400,
                  !.http = IF converted.success
                           THEN [status |-> 200, detail |-> ""]
                           ELSE tts_except]
  /\ UNCHANGED <<chat_vars, adv, llm, ws, boot>>

\* the response has gone out
tts_next_request ==
  /\ tts.pc = "done"
  /\ tts' = [pc |-> "idle"]
  /\ UNCHANGED <<chat_vars, adv, llm, ws, boot>>

NextTTS ==
  \/ tts_request
  \/ \E outcome \in TTSOutcomes : tts_convert(outcome)
  \/ tts_next_request

SpecTTS == Init /\ [][NextTTS]_vars

\* ------------------------------------------------------------- properties
\* process_query has returned to send_message
Returned == pc \in {"endpoint", "done"} /\ orchestrator_calls = 1

\* the response of the comprehensive path has been built
Synthesized == "metadata" \in DOMAIN response

NoAdvisorKeyword(query) ==
  LET query_lower == lower(query)
  IN \A k \in 1..Len(intent_keywords) :
        ~ any_keyword_in(intent_keywords[k].keywords, query_lower)

HasKeywordOf(agent, query) ==
  \E k \in 1..Len(intent_keywords) :
     /\ intent_keywords[k].agent = agent
     /\ any_keyword_in(intent_keywords[k].keywords, lower(query))

DeclarationOrder == <<"finance", "agronomy", "market", "policy", "risk">>

DeclIndex(agent) == CHOOSE i \in 1..5 : DeclarationOrder[i] = agent

\* C1: process_query always returns a payload to its caller, and when a
\* step of the turn raised, the payload is the fixed error payload: intent
\* "error", confidence 0.0, no suggestions, the apology text (Hindi for
\* "hi", English otherwise).
C1_ProcessQueryNeverRaises ==
  /\ Returned => "text" \in DOMAIN result
  /\ raised_at # "" =>
       /\ Returned
       /\ "text" \in DOMAIN result
       /\ result.intent = "error"
       /\ result.confidence = 0
       /\ result.suggestions = <<>>
       /\ result.language = request.language
       /\ \A i \in 1..Len(result.text) :
            result.text[i].lang = (IF request.language = "hi" THEN "hi"
                                   ELSE "en")

C1_Witness ==
  /\ pc = "done"
  /\ raised_at = "log"
  /\ request.language = "bn"
  /\ result.intent = "error"

\* C2: a chat-send request whose message is empty or only white space is
\* answered with HTTP 400 and the orchestrator is not invoked.
C2_EmptyMessageIs400 ==
  (pc = "done" /\ strip(request.message) = <<>>) =>
     (http_response.status = 400 /\ orchestrator_calls = 0)

\* C3: when processing fails internally the response is 200 with confidence
\* 0.0 and intent "error"; no response with intent "error" carries a
\* non-zero confidence.
C3_ErrorIntentHasZeroConfidence ==
  pc = "done" =>
     /\ http_response.intent = "error" => http_response.confidence = 0
     /\ raised_at # "" =>
          /\ http_response.status = 200
          /\ http_response.intent = "error"
          /\ http_response.confidence = 0

\* C4: the comprehensive gate alone decides whether advisors run: an
\* advisor is invoked only for a comprehensive query and the LLM fallback
\* only for a non-comprehensive one, whatever the intent classifier
\* matched; a turn that returns without an exception has called the LLM
\* fallback exactly once and no advisor when the query is not
\* comprehensive, and has called every involved advisor and not the LLM
\* fallback when it is.
C4_GateAloneDecides ==
  pc \notin {"idle"} =>
    LET comprehensive == is_comprehensive_query(request.message)
    IN /\ advisor_calls # <<>> => comprehensive
       /\ llm_calls > 0 => ~ comprehensive
       /\ (Returned /\ raised_at = "" /\ ~ comprehensive) =>
             (llm_calls = 1 /\ advisor_calls = <<>>)
       /\ (Returned /\ raised_at = "" /\ comprehensive) =>
             (llm_calls = 0 /\ advisor_calls = intent_analysis.involved_agents)

C4_Witness ==
  /\ pc = "done"
  /\ raised_at = ""
  /\ request.message = W_Price
  /\ intent_analysis.involved_agents = <<"market">>
  /\ llm_calls = 1
  /\ advisor_calls = <<>>

C6_InvolvedAgentsAreTheMatches ==
  (pc = "gate" /\ ~ NoAdvisorKeyword(request.message)) =>
     LET inv == intent_analysis.involved_agents
     IN /\ Range(inv) \subseteq AgentNames
        /\ \A a \in AgentNames :
             a \in Range(inv) <=> HasKeywordOf(a, request.message)
        /\ \A i, j \in 1..Len(inv) :
             i < j => DeclIndex(inv[i]) < DeclIndex(inv[j])
        /\ (\A a \in AgentNames \ {"finance"} :
               ~ HasKeywordOf(a, request.message)) => inv = <<"finance">>

C6_Witness ==
  /\ pc = "gate"
  /\ request.message = W_Price \o <<" ">> \o W_loan
  /\ intent_analysis.involved_agents = <<"finance", "market">>

\* C7: when exactly one advisor responded, the synthesized text is that
\* advisor's text unchanged, with no preamble and no heading.
C7_SingletonPassesThrough ==
  (Synthesized /\ Len(response.metadata.agent_responses) = 1) =>
     response.text = response.metadata.agent_responses[1].text

C7_Witness ==
  /\ pc = "log"
  /\ Synthesized
  /\ request.language = "en"
  /\ Keys(response.metadata.agent_responses) = <<"risk">>
  /\ response.text = AdviceText("risk", "en")

\* C8: when two or more advisors responded, the synthesized text is one
\* preamble followed by one section per advisor, in the order of
\* involved_agents, each section being that advisor's heading followed by
\* that advisor's text; no section is missing, repeated or reordered.
C8_SectionsInInvolvedOrder ==
  (Synthesized /\ Len(response.metadata.agent_responses) >= 2) =>
     LET R == response.metadata.agent_responses
         inv == response.agents_used
         text == response.text
     IN /\ Len(R) = Len(inv)
        /\ Len(text) = 2 + 4 * Len(inv)
        /\ text[1] = Preamble
        /\ \A i \in 1..Len(inv) :
             /\ R[i].agent = inv[i]
             /\ text[4 * i - 1] = heading(inv[i])
             /\ <<text[4 * i + 1]>> = R[i].text
        /\ \A i \in 1..Len(text) :
             (\E a \in AgentNames : text[i] = heading(a)) =>
                (\E k \in 1..Len(inv) : i = 4 * k - 1)

C8_Witness ==
  /\ pc = "log"
  /\ Synthesized
  /\ response.agents_used = <<"finance", "policy">>
  /\ Len(response.text) = 10

\* C9: in multi-advisor synthesis the preamble and the headings are in the
\* request language: English for "en", Hindi for "hi".
C9_PreambleAndHeadingsLocalized ==
  (Synthesized /\ Len(response.metadata.agent_responses) >= 2
     /\ request.language \in {"hi", "en"}) =>
     /\ response.text[1].lang = request.language
     /\ \A i \in 1..Len(response.agents_used) :
          response.text[4 * i - 1].lang = request.language

\* C10: partial failure isolation: when the process of an involved advisor
\* raises, every involved advisor is still invoked, the mapping holds the
\* fixed apology for the advisor that raised and the text each other
\* advisor returned, the synthesized text contains all of them,
\* agents_used lists every involved advisor, and the turn returns this
\* response, not the error payload.
C10_PartialFailureIsolated ==
  (Synthesized /\ advisor_raised # {}) =>
     LET R == response.metadata.agent_responses
         inv == intent_analysis.involved_agents
     IN /\ advisor_calls = inv
        /\ response.agents_used = inv
        /\ Keys(R) = inv
        /\ \A i \in 1..Len(R) :
             /\ R[i].agent \in advisor_raised =>
                  R[i].text =
                    <<P("en", "Sorry, " \o R[i].agent
                                \o " agent is temporarily unavailable.")>>
             /\ R[i].agent \notin advisor_raised =>
                  R[i].text \in {AdviceText(R[i].agent, request.language),
                                 AdvisorApology(R[i].agent, request.language)}
             /\ \A k \in 1..Len(R[i].text) :
                  R[i].text[k] \in Range(response.text)
        /\ response.intent # "error"
        /\ (Returned /\ raised_at = "") =>
              (result = response /\ result.intent # "error")

C10_Witness ==
  /\ pc = "done"
  /\ raised_at = ""
  /\ Synthesized
  /\ intent_analysis.involved_agents = <<"finance", "agronomy", "market">>
  /\ advisor_raised = {"agronomy"}
  /\ http_response.status = 200
  /\ http_response.intent = "finance"
  /\ agent_responses[1].text = AdviceText("finance", request.language)
  /\ agent_responses[3].text = AdviceText("market", request.language)
\* C11: the text the fan-out substitutes for an advisor whose process
\* raised is the apology in the request's language: Hindi for "hi",
\* English otherwise.
C11_ApologyInRequestLanguage ==
  (Synthesized /\ advisor_raised # {}) =>
     \A i \in 1..Len(response.metadata.agent_responses) :
        LET r == response.metadata.agent_responses[i]
        IN r.agent \in advisor_raised =>
             \A k \in 1..Len(r.text) :
                r.text[k].lang = (IF request.language = "hi" THEN "hi"
                                  ELSE "en")

\* C12: the Devanagari request of end-to-end scenario 1 (loan and crop, in
\* language "hi") is handled by the multi-advisor pipeline: the intent is
\* finance or agronomy, agents_used includes finance and agronomy, and the
\* text has two headed sections.
C12_DevanagariScenario ==
  (pc = "done" /\ request.message = W_scenario1 /\ request.language = "hi"
     /\ raised_at = "") =>
     /\ http_response.intent \in {"finance", "agronomy"}
     /\ "agents_used" \in DOMAIN result
     /\ {"finance", "agronomy"} \subseteq Range(result.agents_used)
     /\ heading("finance") \in Range(http_response.text)
     /\ heading("agronomy") \in Range(http_response.text)
     /\ llm_calls = 0

\* the language of an advisor's literal for a request language
ExpectedAdvisorLang == IF adv.language = "hi" THEN "hi" ELSE "en"

\* an advisor's process has returned to its caller
ProcessReturned == adv.pc = "returned" /\ adv.op = "process"

\* C13: a debt-forecast query whose user context has no current_loans, or
\* loans whose remaining amounts sum to 0, is answered by the Finance
\* advisor with the no-debt congratulation and evaluates no division; and
\* for every user context no division of the forecast computation has a
\* zero divisor.
C13_NoDebtNoDivisionByZero ==
  (adv.pc = "returned" /\ adv.agent = "finance") =>
     /\ \A k \in 1..Len(adv.divisors) : adv.divisors[k] # 0
     /\ (/\ adv.op = "process"
         /\ adv.query_type = "debt_forecast"
         /\ ~adv.injected
         /\ sum_remaining(DictGet(adv.user_context, "current_loans", <<>>)) = 0)
        => /\ adv.result = <<[lang |-> ExpectedAdvisorLang,
                              s |-> "finance no debt"]>>
           /\ adv.divisors = <<>>
           /\ ~adv.raised

\* C13 happens: a debt-forecast query with current_loans = [] was answered
\* with the congratulation
C13_Witness ==
  /\ ProcessReturned
  /\ adv.agent = "finance"
  /\ adv.query = Q_Debt
  /\ "current_loans" \in DOMAIN adv.user_context
  /\ adv.user_context.current_loans = <<>>
  /\ ~adv.injected
  /\ adv.result = get_no_debt_response(adv.language)

\* C14: whatever the advisor, query, user context and language, process
\* returns a text and propagates no exception; when the selected handler
\* raised, the text is that advisor's apology, in Hindi for language "hi"
\* and in English for any other language.
C14_AdvisorProcessNeverRaises ==
  ProcessReturned =>
     /\ ~adv.propagated
     /\ Len(adv.result) >= 1
     /\ adv.raised =>
          adv.result = <<[lang |-> ExpectedAdvisorLang,
                          s |-> adv.agent \o " apology"]>>

\* C14 happens: a handler of the Risk advisor raised on a request in a
\* language other than Hindi and the caller got the English apology
C14_Witness ==
  /\ ProcessReturned
  /\ adv.agent = "risk"
  /\ adv.raised
  /\ adv.language = "bn"
  /\ adv.result = AdvisorApology("risk", "en")

\* C20: an initialized Agronomy advisor answers a crop-recommendation query
\* for soil type S in season T by rendering only crops of season T and soil
\* type S, by descending profit_per_acre, three at most; for "loamy" in
\* July maize is rendered and rice is not above it.
C20_CropRankingBySoilAndSeason ==
  (/\ ProcessReturned
   /\ adv.agent = "agronomy"
   /\ adv.self.initialized
   /\ adv.query_type = "crop_recommendation"
   /\ ~adv.injected
   /\ "soil_health" \in DOMAIN adv.user_context
   /\ "type" \in DOMAIN adv.user_context.soil_health)
  => LET S == adv.user_context.soil_health.type
         T == get_current_season(adv.month)
         ranked == adv.ranked
     IN /\ \A k \in 1..Len(ranked) :
             crops[ranked[k]].season = T /\ crops[ranked[k]].soil_type = S
        /\ \A i, j \in 1..Len(ranked) :
             i < j => profit_per_acre(crops[ranked[i]])
                        >= profit_per_acre(crops[ranked[j]])
        /\ Len(ranked) <= 3
        /\ (S = "loamy" /\ adv.month = 7) =>
             \E i \in 1..Len(ranked) :
                /\ ranked[i] = "maize"
                /\ \A j \in 1..Len(ranked) : ranked[j] = "rice" => i < j

\* a call of get_krishi_mitra_response has just returned
LlmReturned == llm.pc = "returned"

\* the largest float below x > 0
float_pred(x) ==
  LET below == bits_sub(x.m, <<1>>)
  IN IF Len(below) < significand_bits THEN [m |-> <<1>> \o below, e |-> x.e - 1] ELSE [m |-> below, e |-> x.e]

\* the last n entries of a list
LastEntries(h, n) == IF Len(h) > n THEN SubSeq(h, Len(h) - n + 1, Len(h)) ELSE h

\* C15: whatever calls were made and however they interleaved, no user's
\* conversation history has more than 20 entries; when a call has returned
\* successfully the caller's history ends with the call's query and then
\* its reply, and is the last (at most 20) entries of what it was before
\* followed by those two, in that order.
C15_HistoryBoundedAndRecent ==
  llm.pc \in {"serving", "returned"} =>
     /\ \A u \in DOMAIN llm.conversation_history :
           Len(llm.conversation_history[u]) <= 20
     /\ (LlmReturned /\ llm.outcome.kind = "reply") =>
          LET u == llm.call.user_id
              h == llm.conversation_history[u]
              old == IF u \in DOMAIN llm.before THEN llm.before[u] ELSE <<>>
              turn == <<[role |-> "user", content |-> llm.call.query],
                        [role |-> "assistant",
                         content |-> llm.outcome.content]>>
          IN /\ Len(h) >= 2
             /\ SubSeq(h, Len(h) - 1, Len(h)) = turn
             /\ h = LastEntries(old \o turn, 20)

\* C15 happens: a successful call of a user whose history was full has
\* returned, and the two oldest entries are gone
C15_Witness ==
  /\ LlmReturned
  /\ llm.outcome.kind = "reply"
  /\ llm.call.user_id = "farmer1"
  /\ llm.call.query = W_loan
  /\ "farmer1" \in DOMAIN llm.before
  /\ Len(llm.before["farmer1"]) = 20
  /\ Len(llm.conversation_history["farmer1"]) = 20
  /\ llm.conversation_history["farmer1"][19].content = W_loan

\* C16: get_krishi_mitra_response raises nothing to its caller; when the
\* completion fails (an exception of the client, a reply without content)
\* it returns the apology payload of the language: intent "error",
\* confidence 0 and no suggestions.
C16_FallbackPayloadOnFailure ==
  LlmReturned =>
     /\ ~llm.raised
     /\ llm.outcome.kind # "reply" =>
          /\ llm.payload.intent = "error"
          /\ llm.payload.confidence = 0
          /\ llm.payload.suggestions = <<>>
          /\ llm.payload.language = llm.call.language
          /\ \A k \in 1..Len(llm.payload.text) :
                llm.payload.text[k].lang
                   = (IF llm.call.language = "hi" THEN "hi" ELSE "en")

\* C16 happens: the client raised during a call in English and the caller
\* got the English apology payload
C16_Witness ==
  /\ LlmReturned
  /\ llm.outcome.kind = "api_error"
  /\ llm.call.language = "en"
  /\ llm.payload = get_fallback_response("en")

\* C17: when the query does not pass the comprehensive gate, what
\* process_query returns is the payload that get_krishi_mitra_response
\* produced, field for field; its intent and confidence are the service's
\* own and nothing of the intent analysis is in it.
C17_LlmPayloadVerbatim ==
  (pc \in {"endpoint", "done"} /\ llm_calls = 1 /\ raised_at = "") =>
     /\ result = response
     /\ \/ \E ai_response \in LLMReplies :
             result = krishi_mitra_payload(request.message, request.language,
                                           ai_response)
        \/ result = get_fallback_response(request.language)
     /\ DOMAIN result = {"text", "voice_ready", "language", "intent",
                         "confidence", "suggestions"}
     /\ result.intent \in {detect_intent(request.message, request.language),
                           "error"}
     /\ result.confidence \in {95, 0}

\* C17 happens: a query that the intent analysis calls "market" went to the
\* LLM fallback service and came back with the service's intent
C17_Witness ==
  /\ pc = "done"
  /\ llm_calls = 1
  /\ raised_at = ""
  /\ request.message = W_Price
  /\ intent_analysis.primary_intent = "market"
  /\ result.intent = "market_info"
  /\ result.confidence = 95

\* C18: once the process serves requests, every advisor that chat send or
\* the WebSocket endpoint can reach has completed initialize(); no served
\* query involves an advisor that has not; and the agents-status endpoint
\* answers "healthy".
C18_ServedOnlyByInitializedAdvisors ==
  boot.pc = "serving" =>
     /\ \A a \in AgentNames :
           boot.chat_agent_orchestrator[a] /\ boot.main_agent_orchestrator[a]
     /\ boot.last.endpoint \in {"chat_send", "websocket"} =>
           boot.last.uninitialized = {}
     /\ boot.last.endpoint = "agents_status" => boot.last.status = "healthy"

\* C19: while the client keeps the connection open, an inbound text frame
\* (a JSON object, any other JSON value, or text that is not JSON) has been
\* answered by exactly one outbound frame, a JSON object with the fields of
\* the chat response, by the time the handler has finished with the frame.
C19_OneResponsePerFrame ==
  (/\ ws.pc \in {"receiving", "ended"}
   /\ ws.frames_read >= 1
   /\ ws.ended_by \notin {"WebSocketDisconnect", "RuntimeError"})
  => /\ ws.sent = 1
     /\ {"text", "language", "confidence", "voice_ready", "intent",
         "suggestions"} \subseteq DOMAIN ws.outbound
     /\ ws.frame.type = "JSONDecodeError" => ws.language = "hi"

\* C21: a text-to-speech request with an empty text is answered with a 4xx
\* status and a description, and the external TTS API is not called.
C21_EmptyTextIs4xx ==
  (tts.pc = "done" /\ tts.request.text = <<>>) =>
     /\ tts.http.status \in 400..499
     /\ tts.http.detail # ""
     /\ tts.api_calls = 0

\* C22: however concurrent calls of get_krishi_mitra_response interleave, a
\* call of one user id leaves the conversation history of every other user
\* id as it was: the same users have a history and each history has the
\* same entries in the same order.
C22_OtherUsersHistoryUntouched ==
  LlmReturned =>
     /\ DOMAIN llm.conversation_history \ {llm.call.user_id}
          = DOMAIN llm.before \ {llm.call.user_id}
     /\ \A u \in DOMAIN llm.before \ {llm.call.user_id} :
           llm.conversation_history[u] = llm.before[u]

\* C22 happens: a call of farmer2 completed while a call of farmer1 was in
\* flight, and farmer1's full history is as it was
C22_Witness ==
  /\ LlmReturned
  /\ llm.outcome.kind = "reply"
  /\ llm.call.user_id = "farmer2"
  /\ \E other \in llm.calls : other.user_id = "farmer1"
  /\ "farmer1" \in DOMAIN llm.before
  /\ Len(llm.before["farmer1"]) = 20
  /\ llm.conversation_history["farmer1"] = llm.before["farmer1"]
  /\ Len(llm.conversation_history["farmer2"]) = 2

\* C23: in every month of the year the current season is kharif for months
\* 6 to 9, rabi for months 10, 11, 12 and 1, zaid for months 2 to 5, and
\* the Agronomy and the Risk advisor give the same season for the month.
C23_SeasonOfMonth ==
  (ProcessReturned /\ adv.agent \in {"agronomy", "risk"}) =>
     /\ adv.season = (IF adv.month \in 6..9 THEN "kharif"
                      ELSE IF adv.month \in {10, 11, 12, 1} THEN "rabi"
                      ELSE "zaid")
     /\ adv.month \in 2..5 <=> adv.season = "zaid"
     /\ get_current_season(adv.month) = risk_get_current_season(adv.month)

\* C23 happens: the Risk advisor served a call in January, in rabi
C23_Witness ==
  /\ ProcessReturned
  /\ adv.agent = "risk"
  /\ adv.month = 1
  /\ adv.season = "rabi"

C25_OneEntryPerInvolvedAdvisor ==
  /\ pc = "synthesize" =>
        /\ Keys(agent_responses) = intent_analysis.involved_agents
        /\ agent_responses # <<>>
        /\ \A i, j \in 1..Len(agent_responses) : agent_responses[i].agent = agent_responses[j].agent => i = j
  /\ Synthesized =>
        /\ Keys(response.metadata.agent_responses) = intent_analysis.involved_agents
        /\ response.agents_used = Keys(response.metadata.agent_responses)
        /\ response.metadata.agent_responses # <<>>
        /\ response.text # get_default_response(request.language)

\* C25 witness: a turn on the comprehensive path involves finance and market,
\* finance's process raised and market's returned, and the response carries
\* both entries in that order
C25_Witness ==
  /\ Synthesized
  /\ intent_analysis.involved_agents = <<"finance", "market">>
  /\ advisor_raised = {"finance"}
  /\ Keys(response.metadata.agent_responses) = <<"finance", "market">>
  /\ response.metadata.agent_responses[1].text = unavailable_text("finance")
  /\ response.metadata.agent_responses[2].text = AdviceText("market", request.language)

\* C28: whenever the WebSocket handler of a client has terminated, for any
\* reason (the client disconnected, a send failed, or parsing or processing a
\* frame raised), no entry remains for that client in active_connections and
\* user_sessions
C28_EndedHandlerUnregistered ==
  ws.pc = "ended" =>
     /\ ws.client_id \notin ws.active_connections
     /\ ws.client_id \notin ws.user_sessions

\* C26: after any sequence of WebSocketManager operations (connect, disconnect,
\* send_message including failed sends, broadcast_message) the client ids of
\* active_connections are the client ids of user_sessions
C26_SameClientIds ==
  ws.pc = "manager" => DOMAIN ws.active_connections = DOMAIN ws.user_sessions

\* C26 witness: client1 and client2 connected, a broadcast's send to client1
\* failed and its clean-up disconnected client1 while its handler still
\* receives: client2 alone is left in both dicts
C26_Witness ==
  /\ ws.pc = "manager"
  /\ Len(ws.sockets) = 2
  /\ ws.sockets[1] = [client_id |-> "client1", pc |-> "receiving", ended_by |-> ""]
  /\ ws.sockets[2] = [client_id |-> "client2", pc |-> "receiving", ended_by |-> ""]
  /\ ws.broadcast = NoBroadcast
  /\ DOMAIN ws.active_connections = {"client2"}
  /\ DOMAIN ws.user_sessions = {"client2"}

\* C27: when the handler of an earlier connection ends while a connection that
\* was accepted later under the same client id is open and registered, the
\* later connection keeps its entry in active_connections and its session
C27_NewerConnectionSurvives ==
  [][(ws.pc = "manager" /\ ws'.pc = "manager") =>
       \A s, t \in 1..Len(ws.sockets) :
          ( /\ s < t
            /\ ws.sockets[s].client_id = ws.sockets[t].client_id
            /\ \A u \in (t + 1)..Len(ws'.sockets) : ws'.sockets[u].client_id # ws.sockets[t].client_id
            /\ ws.sockets[s].pc = "receiving" /\ ws'.sockets[s].pc = "ended"
            /\ ws.sockets[t].pc # "ended" /\ ws'.sockets[t].pc # "ended"
            /\ ws.sockets[t].client_id \in DOMAIN ws.active_connections
            /\ ws.active_connections[ws.sockets[t].client_id] = t )
          => /\ ws.sockets[t].client_id \in DOMAIN ws'.active_connections
             /\ ws'.active_connections[ws.sockets[t].client_id] = t
             /\ ws.sockets[t].client_id \in DOMAIN ws'.user_sessions]_vars

\* C29: whenever get_krishi_mitra_response returns the fallback apology
\* payload, the conversation history of every user, the calling user
\* included, is what it was before the call resumed: a failed turn leaves
\* neither its query nor a reply in the history
C29_FallbackLeavesHistory ==
  (LlmReturned /\ llm.payload = get_fallback_response(llm.call.language)) =>
     llm.conversation_history = llm.before

\* C30: after initialize() has completed, for each of the five advisors and
\* each sub-category its sub-classifier can return, process called with the
\* user context of _get_user_context returns the advice text of that
\* sub-category's handler, never the advisor's apology: no handler raises on
\* a table or field that initialize() leaves undefined.
C30_InitializedHandlersRenderAdvice ==
  (/\ ProcessReturned
   /\ adv.self.initialized
   /\ ~adv.injected
   /\ adv.user_context = get_user_context("farmer1"))
  => /\ ~adv.raised
     /\ adv.result # AdvisorApology(adv.agent, adv.language)

====
